---- MODULE Spec2Model ----
(***************************************************************************)
(* Insight-discovery engine of quantaview (backend/analytics,              *)
(* backend/services/data_processor.py, backend/routers/analytics.py).      *)
(*                                                                         *)
(* Units.  Money is in whole dollars, volumes in 0.01 lot, prices in       *)
(* 0.0001, times in minutes since Monday 2024-01-01 00:00 (a leap year     *)
(* that starts on a Monday).  A confidence is held in sixtieths (every     *)
(* confidence of the code is a multiple of 0.05 or count/20 or count/15).  *)
(* A value is an extended rational [n, d]: d > 0 is the number n/d,        *)
(* d = 0 with n # 0 is +/- infinity, d = 0 with n = 0 is NaN.  Standard    *)
(* deviations are irrational in general and are carried in cents.          *)
(***************************************************************************)
EXTENDS Integers, Sequences, FiniteSets, TLC

VARIABLES db, df, pc, ran, insights, result, pass, first, pool

vars == <<db, df, pc, ran, insights, result, pass, first, pool>>

\* None / NaN of an optional field (prices and times are never negative).
Null == 0 - 1

----------------------------------------------------------------------------
\* Generic helpers on sequences and sets

RECURSIVE SeqSum(_)
SeqSum(s) == IF s = <<>> THEN 0 ELSE Head(s) + SeqSum(Tail(s))

RECURSIVE SetSum(_, _)
SetSum(S, f) ==
    IF S = {} THEN 0
    ELSE LET x == CHOOSE y \in S : TRUE IN f[x] + SetSum(S \ {x}, f)

Abs(x) == IF x < 0 THEN 0 - x ELSE x

Min2(a, b) == IF a <= b THEN a ELSE b

Max2(a, b) == IF a >= b THEN a ELSE b

SetMin(S) == CHOOSE x \in S : \A y \in S : x <= y

SetMax(S) == CHOOSE x \in S : \A y \in S : x >= y

\* The elements of a set of integers in ascending order.
RECURSIVE SetToSeq(_)
SetToSeq(S) ==
    IF S = {} THEN <<>>
    ELSE LET m == SetMin(S) IN <<m>> \o SetToSeq(S \ {m})

Range(s) == {s[i] : i \in DOMAIN s}

\* Column c of a sequence of rows.
Col(rows, c) == [i \in DOMAIN rows |-> rows[i][c]]

\* Truncating integer division (the sign of the quotient follows the operands).
QuoT(a, b) == IF (a >= 0) = (b > 0) THEN Abs(a) \div Abs(b) ELSE 0 - (Abs(a) \div Abs(b))

\* floor(sqrt(x)) by bisection.
RECURSIVE ISqrtIn(_, _, _)
ISqrtIn(x, lo, hi) ==
    IF lo >= hi THEN lo
    ELSE LET mid == (lo + hi + 1) \div 2 IN
         IF mid * mid <= x THEN ISqrtIn(x, mid, hi) ELSE ISqrtIn(x, lo, mid - 1)

ISqrt(x) == ISqrtIn(x, 0, Min2(x, 46340))

----------------------------------------------------------------------------
\* Values (extended rationals) and statistics

Num(k) == [n |-> k, d |-> 1]

Frac(a, b) == [n |-> a, d |-> b]

PosInf == [n |-> 1, d |-> 0]

NegInf == [n |-> 0 - 1, d |-> 0]

NaN == [n |-> 0, d |-> 0]

IsNaN(v) == v.d = 0 /\ v.n = 0

IsFinite(v) == v.d > 0

\* v < w on extended rationals; any comparison with NaN is false.
ValLess(v, w) ==
    /\ ~IsNaN(v)
    /\ ~IsNaN(w)
    /\ IF v.d = 0 \/ w.d = 0
       THEN IF v.d = 0 /\ w.d = 0 THEN v.n < w.n
            ELSE IF v.d = 0 THEN v.n < 0 ELSE w.n > 0
       ELSE v.n * w.d < w.n * v.d

\* Series.mean(): NaN on an empty series.
Mean(xs) == IF Len(xs) = 0 THEN NaN ELSE Frac(SeqSum(xs), Len(xs))

\* n(n-1) times the sample variance (ddof = 1): n * sum(x^2) - sum(x)^2.
VarNum(xs) == Len(xs) * SeqSum([i \in DOMAIN xs |-> xs[i] * xs[i]]) - SeqSum(xs) * SeqSum(xs)

\* Series.std() in cents; NaN (Null here) when fewer than 2 observations.
StdCents(xs) ==
    IF Len(xs) < 2 THEN Null
    ELSE LET den == Len(xs) * (Len(xs) - 1)
             q == VarNum(xs) \div den
             r == VarNum(xs) % den
         IN ISqrt(q * 10000 + (r * 10000) \div den)

----------------------------------------------------------------------------
\* Calendar of open_time (minutes since Monday 2024-01-01 00:00)

DayIndex(t) == t \div 1440

\* datetime.hour
HourOf(t) == (t \div 60) % 24

\* A numbering of the days that starts on Sunday: 0 = Sunday .. 6 = Saturday
WeekdaySundayFirst(t) == (DayIndex(t) + 1) % 7

\* datetime.weekday(): 0 = Monday .. 6 = Sunday
Weekday(t) == DayIndex(t) % 7

\* Days of 2024 before each month.
CumDays == <<0, 31, 60, 91, 121, 152, 182, 213, 244, 274, 305, 335, 366>>

\* Series.dt.month: 1 .. 12
MonthOf(t) == CHOOSE m \in 1..12 : CumDays[m] <= DayIndex(t) /\ DayIndex(t) < CumDays[m + 1]

\* Series.dt.day: 1 .. 31
DayOfMonth(t) == DayIndex(t) - CumDays[MonthOf(t)] + 1

\* Series.dt.isocalendar().week (the year starts on a Monday)
IsoWeek(t) == DayIndex(t) \div 7 + 1

----------------------------------------------------------------------------
\* Trade Table Builder: DataProcessor

\* (close_time - open_time) in hours, None for an open position; held in minutes.
calculate_duration_hours(open_time, close_time) ==
    IF close_time = Null THEN Null ELSE close_time - open_time

\* The profit of a trade before costs.
GrossProfit(trade) == trade.profit

\* trade.profit + trade.commission + trade.swap (lines 44 and 50)
NetProfit(trade) == trade.profit + trade.commission + trade.swap

\* One row of the DataFrame built from one Trade.
TradeRow(trade) ==
    [symbol        |-> trade.symbol,
     volume        |-> trade.volume,
     open_price    |-> trade.open_price,
     close_price   |-> trade.close_price,
     stop_loss     |-> trade.stop_loss,
     take_profit   |-> trade.take_profit,
     profit        |-> trade.profit,
     commission    |-> trade.commission,
     swap          |-> trade.swap,
     net_profit    |-> NetProfit(trade),
     open_time     |-> trade.open_time,
     close_time    |-> trade.close_time,
     duration_hours |-> calculate_duration_hours(trade.open_time, trade.close_time),
     hour_opened   |-> HourOf(trade.open_time),
     day_of_week   |-> Weekday(trade.open_time),
     is_profitable |-> NetProfit(trade) > 0,
     month         |-> MonthOf(trade.open_time),
     week_of_year  |-> IsoWeek(trade.open_time),
     is_weekend    |-> Weekday(trade.open_time) \in {5, 6}]

\* pd.DataFrame(): no rows, no columns.
EmptyFrame == [rows |-> <<>>, extra |-> <<>>]

\* A table that is never taken for empty.
NeverEmpty(frame) == FALSE

\* DataFrame.empty
IsEmpty(frame) == frame.rows = <<>>

\* The table of the trades the query returned; rows keep the query's order.
\* extra holds the columns a detector adds to the shared frame, by name.
get_trades_dataframe(trades) ==
    IF Len(trades) = 0 THEN EmptyFrame
    ELSE [rows |-> [i \in DOMAIN trades |-> TradeRow(trades[i])], extra |-> <<>>]

\* df[name] = values (adds the column or overwrites it in place).
SetColumn(frame, name, values) ==
    [frame EXCEPT !.extra = (name :> values) @@ frame.extra]

\* DataFrame.sort_values('open_time'): a sorted copy (open times are distinct).
RECURSIVE SortByOpenTime(_)
SortByOpenTime(rows) ==
    IF rows = <<>> THEN <<>>
    ELSE LET t == SetMin({rows[i].open_time : i \in DOMAIN rows})
         IN SelectSeq(rows, LAMBDA r : r.open_time = t)
            \o SortByOpenTime(SelectSeq(rows, LAMBDA r : r.open_time # t))

----------------------------------------------------------------------------
\* Insights and their ranking

Insight(type, title, value, confidence) ==
    [type |-> type, title |-> title, value |-> value, confidence |-> confidence]

\* Outcome of one detector call: the insights it returns (or raised, when an
\* exception leaves it) and the shared frame as the call leaves it.
Returns(out, frame) == [raised |-> FALSE, out |-> out, df |-> frame]

Raises(frame) == [raised |-> TRUE, out |-> <<>>, df |-> frame]

\* abs(x.get('value', 0))
AbsVal(v) == [n |-> Abs(v.n), d |-> v.d]

\* The sort key x['confidence'] * abs(x['value']), as an extended rational in
\* sixtieths of the value's unit (0 * inf is NaN).
RankKey(x) ==
    IF x.value.d = 0
    THEN IF x.confidence = 0 \/ x.value.n = 0 THEN NaN ELSE PosInf
    ELSE Frac(x.confidence * Abs(x.value.n), x.value.d)

\* A sort that is not stable: x goes before the elements with its own key.
RECURSIVE InsertBeforeTies(_, _)
InsertBeforeTies(sorted, x) ==
    IF sorted = <<>> THEN <<x>>
    ELSE IF ValLess(RankKey(x), RankKey(Head(sorted)))
         THEN <<Head(sorted)>> \o InsertBeforeTies(Tail(sorted), x)
         ELSE <<x>> \o sorted

\* list.sort(key, reverse=True) is stable: x goes after every element whose
\* key is not smaller than its own.
RECURSIVE InsertRanked(_, _)
InsertRanked(sorted, x) ==
    IF sorted = <<>> THEN <<x>>
    ELSE IF ValLess(RankKey(Head(sorted)), RankKey(x))
         THEN <<x>> \o sorted
         ELSE <<Head(sorted)>> \o InsertRanked(Tail(sorted), x)

\* No sort at all: the candidates stay in emission order.
KeepEmissionOrder(xs) == xs

RECURSIVE SortRanked(_)
SortRanked(xs) ==
    IF xs = <<>> THEN <<>>
    ELSE InsertRanked(SortRanked(SubSeq(xs, 1, Len(xs) - 1)), xs[Len(xs)])

\* No cut: the whole list is returned.
TruncateNone(xs) == xs

\* insights[:20]
TopN == 20

Truncate(xs) == SubSeq(xs, 1, Min2(Len(xs), TopN))

RankAndSelect(xs) == Truncate(SortRanked(xs))

----------------------------------------------------------------------------
\* Detector library: AdvancedInsightsEngine

NetProfits(rows) == Col(rows, "net_profit")

TotalProfit(rows) == SeqSum(NetProfits(rows))

\* Number of rows with is_profitable (the numerator of is_profitable.mean()).
Wins(rows) == Len(SelectSeq(rows, LAMBDA r : r.is_profitable))

AtHour(rows, h) == SelectSeq(rows, LAMBDA r : r.hour_opened = h)

\* sorted(hours)
RECURSIVE SortedList(_)
SortedList(xs) ==
    IF xs = <<>> THEN <<>>
    ELSE LET m == SetMin(Range(xs))
         IN SelectSeq(xs, LAMBDA x : x = m) \o SortedList(SelectSeq(xs, LAMBDA x : x # m))

\* The loop of _find_consecutive_periods over hours_sorted[i..]: groups closed
\* so far, and the group being built.
RECURSIVE ConsecutiveLoop(_, _, _, _)
ConsecutiveLoop(hs, i, groups, current) ==
    IF i > Len(hs) THEN Append(groups, current)
    ELSE IF hs[i] = hs[i - 1] + 1
         THEN ConsecutiveLoop(hs, i + 1, groups, Append(current, hs[i]))
         ELSE ConsecutiveLoop(hs, i + 1, Append(groups, current), <<hs[i]>>)

\* The groups of consecutive hours with the single hours kept.
find_periods_with_singles(hours) ==
    IF hours = <<>> THEN <<>>
    ELSE LET hs == SortedList(hours)
         IN ConsecutiveLoop(hs, 2, <<>>, <<hs[1]>>)

find_consecutive_periods(hours) ==
    IF hours = <<>> THEN <<>>
    ELSE LET hs == SortedList(hours)
         IN SelectSeq(ConsecutiveLoop(hs, 2, <<>>, <<hs[1]>>), LAMBDA g : Len(g) >= 2)

\* Every key of S, largest f first: no limit on the number of rows kept.
RECURSIVE AllLargestFirst(_, _, _)
AllLargestFirst(S, n, f) ==
    IF S = {} THEN <<>>
    ELSE LET best == SetMin({k \in S : \A j \in S : f[j] <= f[k]})
         IN <<best>> \o AllLargestFirst(S \ {best}, n, f)

\* DataFrame.nlargest(n, column): the keys of S with the n largest f, largest
\* first, equal values in index (ascending key) order.
RECURSIVE NLargest(_, _, _)
NLargest(S, n, f) ==
    IF S = {} \/ n = 0 THEN <<>>
    ELSE LET best == SetMin({k \in S : \A j \in S : f[j] <= f[k]})
         IN <<best>> \o NLargest(S \ {best}, n - 1, f)

\* Series.idxmin() / idxmax(): the first key in index order with the extreme.
IdxMin(S, f) == SetMin({k \in S : \A j \in S : f[k] <= f[j]})

IdxMax(S, f) == SetMin({k \in S : \A j \in S : f[k] >= f[j]})

\* count / divisor without the cap.
UncappedConfidence(cap, count, divisor) == (60 \div divisor) * count

\* min(cap, count / divisor) in sixtieths, for divisor 20, 15 or 10.
CappedConfidence(cap, count, divisor) == Min2(cap, (60 \div divisor) * count)

GoldenHours(period, total, count) ==
    Insight("golden_hours",
            <<period[1], period[Len(period)] + 1>>,
            Num(SeqSum([i \in DOMAIN period |-> total[period[i]]])),
            CappedConfidence(54, SeqSum([i \in DOMAIN period |-> count[period[i]]]), 20))

\* The time patterns with a danger hour flagged from a total of -100 down.
analyze_time_patterns_from_100(frame) ==
    LET rows == frame.rows
        total == [h \in 0..23 |-> TotalProfit(AtHour(rows, h))]
        count == [h \in 0..23 |-> Len(AtHour(rows, h))]
        hourly_stats == {h \in 0..23 : count[h] >= 3}
        best_hours == NLargest(hourly_stats, 3, total)
        periods == SelectSeq(find_consecutive_periods(best_hours), LAMBDA g : Len(g) >= 2)
        golden == [i \in DOMAIN periods |-> GoldenHours(periods[i], total, count)]
        high_activity_hours == {h \in hourly_stats : count[h] >= 5}
        worst == IdxMin(high_activity_hours, total)
        danger == IF high_activity_hours # {} /\ total[worst] <= 0 - 100
                  THEN <<Insight("danger_hour", <<worst>>, Num(total[worst]), 51)>>
                  ELSE <<>>
    IN Returns(IF hourly_stats = {} THEN <<>> ELSE golden \o danger, frame)

analyze_time_patterns(frame) ==
    LET rows == frame.rows
        total == [h \in 0..23 |-> TotalProfit(AtHour(rows, h))]
        count == [h \in 0..23 |-> Len(AtHour(rows, h))]
        hourly_stats == {h \in 0..23 : count[h] >= 3}
        best_hours == NLargest(hourly_stats, 3, total)
        periods == SelectSeq(find_consecutive_periods(best_hours), LAMBDA g : Len(g) >= 2)
        golden == [i \in DOMAIN periods |-> GoldenHours(periods[i], total, count)]
        high_activity_hours == {h \in hourly_stats : count[h] >= 5}
        worst == IdxMin(high_activity_hours, total)
        danger == IF high_activity_hours # {} /\ total[worst] < 0 - 100
                  THEN <<Insight("danger_hour", <<worst>>, Num(total[worst]), 51)>>
                  ELSE <<>>
    IN Returns(IF hourly_stats = {} THEN <<>> ELSE golden \o danger, frame)

\* The hour sets of the six sessions, in the order the code visits them.
SessionHours ==
    <<(21..23) \cup (0..7), 7..15, 13..21, {7}, 13..15, 16..20>>

\* The session rule with its gate one trade lower.
SessionInsightFromFour(rows, k) ==
    LET session_df == SelectSeq(rows, LAMBDA r : r.hour_opened \in SessionHours[k])
        profit == TotalProfit(session_df)
        trade_count == Len(session_df)
        wins == Wins(session_df)
    IN IF trade_count < 4 THEN <<>>
       ELSE IF profit > 200 \/ 100 * wins > 65 * trade_count
            THEN <<Insight("session_excellence", <<k>>, Num(profit),
                           CappedConfidence(51, trade_count, 15))>>
            ELSE IF profit < 0 - 200 \/ 100 * wins < 35 * trade_count
                 THEN <<Insight("session_warning", <<k>>, Num(profit),
                                CappedConfidence(48, trade_count, 15))>>
                 ELSE <<>>

\* The session rule with the warning test made before the excellence test.
SessionInsightWarningFirst(rows, k) ==
    LET session_df == SelectSeq(rows, LAMBDA r : r.hour_opened \in SessionHours[k])
        profit == TotalProfit(session_df)
        trade_count == Len(session_df)
        wins == Wins(session_df)
    IN IF trade_count < 5 THEN <<>>
       ELSE IF profit < 0 - 200 \/ 100 * wins < 35 * trade_count
            THEN <<Insight("session_warning", <<k>>, Num(profit),
                           CappedConfidence(48, trade_count, 15))>>
            ELSE IF profit > 200 \/ 100 * wins > 65 * trade_count
                 THEN <<Insight("session_excellence", <<k>>, Num(profit),
                                CappedConfidence(51, trade_count, 15))>>
                 ELSE <<>>

SessionInsight(rows, k) ==
    LET session_df == SelectSeq(rows, LAMBDA r : r.hour_opened \in SessionHours[k])
        profit == TotalProfit(session_df)
        trade_count == Len(session_df)
        wins == Wins(session_df)
    IN IF trade_count < 5 THEN <<>>
       ELSE IF profit > 200 \/ 100 * wins > 65 * trade_count
            THEN <<Insight("session_excellence", <<k>>, Num(profit),
                           CappedConfidence(51, trade_count, 15))>>
            ELSE IF profit < 0 - 200 \/ 100 * wins < 35 * trade_count
                 THEN <<Insight("session_warning", <<k>>, Num(profit),
                                CappedConfidence(48, trade_count, 15))>>
                 ELSE <<>>

analyze_trading_sessions(frame) ==
    Returns(SessionInsight(frame.rows, 1) \o SessionInsight(frame.rows, 2)
            \o SessionInsight(frame.rows, 3) \o SessionInsight(frame.rows, 4)
            \o SessionInsight(frame.rows, 5) \o SessionInsight(frame.rows, 6), frame)

analyze_day_of_week_patterns(frame) ==
    LET friday_trades == SelectSeq(frame.rows, LAMBDA r : r.day_of_week = 4)
        friday_late_trades == SelectSeq(friday_trades, LAMBDA r : r.hour_opened >= 15)
        performance == TotalProfit(friday_late_trades)
    IN Returns(IF /\ Len(friday_late_trades) >= 3
                  /\ \/ performance < 0 - 100
                     \/ 10 * Wins(friday_late_trades) < 4 * Len(friday_late_trades)
               THEN <<Insight("weekly_pattern", <<>>, Num(performance), 48)>>
               ELSE <<>>, frame)

analyze_month_seasonality(frame) ==
    LET rows == frame.rows
        InMonth(m) == SelectSeq(rows, LAMBDA r : r.month = m)
        total == [m \in 1..12 |-> TotalProfit(InMonth(m))]
        significant_months == {m \in 1..12 : Len(InMonth(m)) >= 5}
        best_month == IdxMax(significant_months, total)
        worst_month == IdxMin(significant_months, total)
    IN Returns(IF /\ Cardinality(significant_months) >= 3
                  /\ 2 * total[best_month] > 3 * Abs(total[worst_month])
               THEN <<Insight("seasonal_pattern", <<best_month>>, Num(total[best_month]), 42)>>
               ELSE <<>>, frame)

\* The symbols the account trades, in the alphabetical order pandas gives a
\* grouped or pivoted index.
Symbols == <<"AUDUSD", "EURUSD", "GBPUSD", "USDJPY">>

WithSymbol(rows, k) == SelectSeq(rows, LAMBDA r : r.symbol = Symbols[k])

\* df['symbol'].unique(), as indices into Symbols
UniqueSymbols(rows) == {k \in DOMAIN Symbols : Len(WithSymbol(rows, k)) > 0}

\* A float derived as num / den, kept to two decimals.
Hundredths(num, den) == Frac(QuoT(100 * num, den), 100)

\* About 100 * sqrt(v), for v below 2^31.
Sqrt100(v) == IF v < 200000 THEN ISqrt(10000 * v) ELSE 100 * ISqrt(v)

\* abs(DataFrame.corr()[x][y]) in hundredths for two columns given as
\* sequences over the same index; Null for NaN (fewer than two rows, or a
\* column without variance).
AbsCorr100(x, y) ==
    LET n == Len(x)
        cov == Abs(n * SeqSum([i \in DOMAIN x |-> x[i] * y[i]]) - SeqSum(x) * SeqSum(y))
        sx == Sqrt100(VarNum(x))
        sy == Sqrt100(VarNum(y))
    IN IF n < 2 \/ VarNum(x) = 0 \/ VarNum(y) = 0 THEN Null
       ELSE Min2(100, (10000 * (100 * (cov \div sx) + (100 * (cov % sx)) \div sx)) \div sy)

\* The pairs (i, j), i < j, of a set of column indices in the order of the
\* nested loops.
RECURSIVE PairsInOrder(_)
PairsInOrder(cols) ==
    IF Len(cols) < 2 THEN <<>>
    ELSE [j \in 1..(Len(cols) - 1) |-> <<cols[1], cols[j + 1]>>] \o PairsInOrder(Tail(cols))

analyze_pair_correlations(frame) ==
    LET rows == frame.rows
        syms == UniqueSymbols(rows)
        dates == SetToSeq({DayIndex(rows[i].open_time) : i \in DOMAIN rows})
        \* pivot(index = date, columns = symbol).fillna(0)
        pair_pivot == [k \in syms |-> [d \in DOMAIN dates |->
            TotalProfit(SelectSeq(WithSymbol(rows, k),
                                  LAMBDA r : DayIndex(r.open_time) = dates[d]))]]
        corr(p) == AbsCorr100(pair_pivot[p[1]], pair_pivot[p[2]])
        high_correlations == SelectSeq(PairsInOrder(SetToSeq(syms)),
                                       LAMBDA p : corr(p) # Null /\ corr(p) > 70)
        shown == SubSeq(high_correlations, 1, Min2(3, Len(high_correlations)))
    IN Returns(IF Cardinality(syms) >= 3
               THEN [i \in DOMAIN shown |->
                        Insight("diversification_warning", shown[i],
                                Frac(corr(shown[i]), 100), 48)]
               ELSE <<>>, frame)

\* Series.quantile(k / 4) with linear interpolation, times 4.
Quartile4(sorted, k) ==
    LET pos == k * (Len(sorted) - 1)
        lo == pos \div 4 + 1
    IN IF pos % 4 = 0 THEN 4 * sorted[lo]
       ELSE 4 * sorted[lo] + (pos % 4) * (sorted[lo + 1] - sorted[lo])

\* The 5 quartile edges of pd.qcut(volume, q=4), times 4.
QCutEdges(volumes) == [k \in 0..4 |-> Quartile4(SortedList(volumes), k)]

\* pd.qcut(..., labels=[4 labels], duplicates='drop') raises ValueError when
\* dropping duplicate edges leaves fewer than 5 edges for the 4 labels.
QCutRaises(volumes) == \E k \in 1..4 : QCutEdges(volumes)[k] = QCutEdges(volumes)[k - 1]

\* pd.qcut(volume, q=4, ...): the bucket 1..4 of every row.
QCut(volumes) ==
    LET edge == QCutEdges(volumes)
    IN [i \in DOMAIN volumes |-> SetMin({k \in 1..4 : 4 * volumes[i] <= edge[k]})]

\* pd.cut(volume, bins=n, labels=[n labels]): n equal-width right-closed
\* buckets over [min, max], the minimum falling into the first.
Cut(volumes, bins) ==
    LET mn == SetMin(Range(volumes))
        mx == SetMax(Range(volumes))
    IN [i \in DOMAIN volumes |->
           IF volumes[i] = mn THEN 1
           ELSE SetMin({k \in 1..bins : (volumes[i] - mn) * bins <= k * (mx - mn)})]

\* avg_profit / profit_std of one bucket: NaN for fewer than two trades,
\* a division by zero for trades of equal profit.
SharpeRatio(profits) ==
    IF Len(profits) < 2 THEN NaN
    ELSE IF VarNum(profits) = 0
         THEN IF SeqSum(profits) > 0 THEN PosInf
              ELSE IF SeqSum(profits) < 0 THEN NegInf ELSE NaN
         ELSE Frac(QuoT(10000 * SeqSum(profits), Len(profits) * StdCents(profits)), 100)

\* Series.idxmax() over values with NaN skipped: the first key whose value no
\* other value exceeds; Null when every value is NaN.
IdxMaxSkipNaN(S, f) ==
    LET defined == {k \in S : ~IsNaN(f[k])}
    IN IF defined = {} THEN Null
       ELSE SetMin({k \in defined : \A j \in defined : ~ValLess(f[k], f[j])})

analyze_lot_size_optimization(frame) ==
    LET rows == frame.rows
        volumes == Col(rows, "volume")
        unique_volumes == Cardinality(Range(volumes))
        bins == IF unique_volumes >= 4 THEN 4 ELSE unique_volumes
        lot_category == IF QCutRaises(volumes) THEN Cut(volumes, bins) ELSE QCut(volumes)
        labels == IF QCutRaises(volumes) THEN 1..bins ELSE 1..4
        mutated == SetColumn(frame, "lot_category", lot_category)
        sharpe_ratio == [k \in labels |->
            SharpeRatio(NetProfits(SelectSeq([i \in DOMAIN rows |->
                                                 [cat |-> lot_category[i],
                                                  net_profit |-> rows[i].net_profit]],
                                             LAMBDA r : r.cat = k)))]
        best == IdxMaxSkipNaN(labels, sharpe_ratio)
    IN IF Len(rows) < 2 \/ unique_volumes < 2 THEN Returns(<<>>, frame)
       ELSE IF best = Null THEN Raises(mutated)
            ELSE Returns(<<Insight("position_sizing", <<best>>, sharpe_ratio[best], 51)>>,
                         mutated)

\* pd.cut(duration_hours, bins=[0, 1, 4, 24, 168, inf]) in minutes: the
\* bucket 1..5, or Null (NaN) for a duration that is not above 0.
DurationCategory(minutes) ==
    IF minutes <= 0 THEN Null
    ELSE IF minutes <= 60 THEN 1
         ELSE IF minutes <= 240 THEN 2
              ELSE IF minutes <= 1440 THEN 3
                   ELSE IF minutes <= 10080 THEN 4 ELSE 5

analyze_position_duration(frame) ==
    LET df_with_duration == SelectSeq(frame.rows, LAMBDA r : r.duration_hours # Null)
        InBucket(k) == SelectSeq(df_with_duration,
                                 LAMBDA r : DurationCategory(r.duration_hours) = k)
        avg_profit == [k \in 1..5 |-> Mean(NetProfits(InBucket(k)))]
        best_duration == IdxMaxSkipNaN(1..5, avg_profit)
    IN IF df_with_duration = <<>> THEN Returns(<<>>, frame)
       ELSE IF best_duration = Null THEN Raises(frame)
            ELSE Returns(<<Insight("duration_optimization", <<best_duration>>,
                                   avg_profit[best_duration], 48)>>, frame)

\* Series.min() of a non-empty series
SeqMin(xs) == SetMin(Range(xs))

\* A comparison that cannot take a trade without a stop-loss.
StopLossRequired(frame) ==
    IF \E i \in DOMAIN frame.rows : frame.rows[i].stop_loss = Null
    THEN Raises(frame)
    ELSE Returns(<<>>, frame)

analyze_stop_loss_effectiveness(frame) ==
    LET trades_with_sl == SelectSeq(frame.rows, LAMBDA r : r.stop_loss # Null)
        trades_without_sl == SelectSeq(frame.rows, LAMBDA r : r.stop_loss = Null)
        sl_max_loss == SeqMin(NetProfits(trades_with_sl))
        no_sl_max_loss == SeqMin(NetProfits(trades_without_sl))
    IN Returns(IF /\ trades_with_sl # <<>>
                  /\ trades_without_sl # <<>>
                  /\ Abs(no_sl_max_loss) > Abs(sl_max_loss) * 2
               THEN <<Insight("risk_management", <<>>,
                              Num(Abs(no_sl_max_loss) - Abs(sl_max_loss)), 54)>>
               ELSE <<>>, frame)

analyze_take_profit_patterns(frame) ==
    LET trades_with_tp == SelectSeq(frame.rows, LAMBDA r : r.take_profit # Null)
        tp_hit_trades == SelectSeq(trades_with_tp, LAMBDA r :
            r.close_price # Null /\ Abs(r.close_price - r.take_profit) < 10)
        manual_close_trades == SelectSeq(trades_with_tp, LAMBDA r :
            r.close_price # Null /\ Abs(r.close_price - r.take_profit) > 10)
        tS == TotalProfit(tp_hit_trades)
        tN == Len(tp_hit_trades)
        mS == TotalProfit(manual_close_trades)
        mN == Len(manual_close_trades)
    IN Returns(IF tN > 0 /\ mN > 0 /\ 5 * mS * tN > 6 * tS * mN
               THEN <<Insight("exit_strategy", <<>>,
                              Hundredths(mS * tN - tS * mN, mN * tN), 45)>>
               ELSE <<>>, frame)

\* The loop of _analyze_consecutive_losses over is_loss[i..]: streaks closed
\* so far, the running streak and the longest streak seen.
RECURSIVE LossLoop(_, _, _, _, _)
LossLoop(profits, i, consecutive_losses, current_streak, max_streak) ==
    IF i > Len(profits)
    THEN [consecutive_losses |-> consecutive_losses, max_streak |-> max_streak]
    ELSE IF profits[i] < 0
         THEN LossLoop(profits, i + 1, consecutive_losses, current_streak + 1,
                       Max2(max_streak, current_streak + 1))
         ELSE LossLoop(profits, i + 1,
                       IF current_streak > 0
                       THEN Append(consecutive_losses, current_streak)
                       ELSE consecutive_losses,
                       0, max_streak)

\* The insight's text names max_streak and avg_streak, the mean of the list:
\* the title holds max_streak, the sum of the list and its length.
analyze_consecutive_losses(frame) ==
    LET df_sorted == SortByOpenTime(frame.rows)
        loop == LossLoop(NetProfits(df_sorted), 1, <<>>, 0, 0)
    IN Returns(IF loop.consecutive_losses # <<>> /\ loop.max_streak >= 5
               THEN <<Insight("risk_warning",
                              <<loop.max_streak, SeqSum(loop.consecutive_losses),
                                Len(loop.consecutive_losses)>>,
                              Num(loop.max_streak), 54)>>
               ELSE <<>>, frame)

\* pd.to_datetime(df['open_time']).dt.date of every row
DateColumn(rows) == [i \in DOMAIN rows |-> DayIndex(rows[i].open_time)]

OnDate(rows, d) == SelectSeq(rows, LAMBDA r : DayIndex(r.open_time) = d)

analyze_overtrading_patterns(frame) ==
    LET rows == frame.rows
        mutated == SetColumn(frame, "date", DateColumn(rows))
        days == Range(mutated.extra["date"])
        daily_profit == [d \in days |-> TotalProfit(OnDate(rows, d))]
        high_freq_days == {d \in days : Len(OnDate(rows, d)) >= 10}
        low_freq_days == {d \in days : Len(OnDate(rows, d)) <= 3}
        hS == SetSum(high_freq_days, daily_profit)
        hN == Cardinality(high_freq_days)
        lS == SetSum(low_freq_days, daily_profit)
        lN == Cardinality(low_freq_days)
    IN Returns(IF hN > 0 /\ lN > 0 /\ lS * hN > hS * lN + 50 * lN * hN
               THEN <<Insight("overtrading_warning", <<>>,
                              Hundredths(lS * hN - hS * lN, lN * hN), 48)>>
               ELSE <<>>, mutated)

analyze_news_impact_times(frame) ==
    LET news_trades == SelectSeq(frame.rows, LAMBDA r : r.hour_opened \in {8, 9, 14, 15, 16})
        non_news_trades == SelectSeq(frame.rows,
                                     LAMBDA r : r.hour_opened \notin {8, 9, 14, 15, 16})
        news_volatility == StdCents(NetProfits(news_trades))
        non_news_volatility == StdCents(NetProfits(non_news_trades))
    IN Returns(IF /\ news_volatility # Null
                  /\ non_news_volatility # Null
                  /\ 2 * news_volatility > 3 * non_news_volatility
               THEN <<Insight("market_timing", <<>>,
                              Frac(news_volatility - non_news_volatility, 100), 48)>>
               ELSE <<>>, frame)

\* Membership of the weekend-exposure group: Friday from 20:00, Sunday with
\* hour_opened <= 4.
WeekendExposed(r) ==
    \/ r.day_of_week = 4 /\ r.hour_opened >= 20
    \/ r.day_of_week = 6 /\ r.hour_opened <= 4

analyze_weekend_gap_exposure(frame) ==
    LET weekend_exposure_trades == SelectSeq(frame.rows, WeekendExposed)
        regular_trades == SelectSeq(frame.rows, LAMBDA r : ~WeekendExposed(r))
        weekend_volatility == StdCents(NetProfits(weekend_exposure_trades))
        regular_volatility == StdCents(NetProfits(regular_trades))
    IN Returns(IF /\ weekend_volatility # Null
                  /\ regular_volatility # Null
                  /\ 10 * weekend_volatility > 13 * regular_volatility
               THEN <<Insight("gap_risk", <<>>, Frac(weekend_volatility, 100), 51)>>
               ELSE <<>>, frame)

analyze_economic_event_correlation(frame) ==
    LET month_start_trades == SelectSeq(frame.rows, LAMBDA r : DayOfMonth(r.open_time) <= 7)
        month_end_trades == SelectSeq(frame.rows, LAMBDA r : DayOfMonth(r.open_time) >= 25)
        sS == TotalProfit(month_start_trades)
        sN == Len(month_start_trades)
        eS == TotalProfit(month_end_trades)
        eN == Len(month_end_trades)
        diff == Abs(sS * eN - eS * sN)
    IN Returns(IF sN > 0 /\ eN > 0 /\ diff > 20 * sN * eN
               THEN <<Insight("monthly_cycle",
                              <<IF sS * eN > eS * sN THEN 0 ELSE 1>>,
                              Hundredths(diff, sN * eN), 42)>>
               ELSE <<>>, frame)

analyze_revenge_trading(frame) ==
    LET df_sorted == SortByOpenTime(frame.rows)
        \* rows i with prev_profit < -200 and next_volume > volume * 1.5; the
        \* shifted columns are NaN at the ends, where the comparison is false
        revenge == {i \in DOMAIN df_sorted :
                       /\ i > 1
                       /\ df_sorted[i - 1].net_profit < 0 - 200
                       /\ i < Len(df_sorted)
                       /\ 2 * df_sorted[i + 1].volume > 3 * df_sorted[i].volume}
        revenge_trades == SelectSeq([i \in DOMAIN df_sorted |->
                                        [hit |-> i \in revenge,
                                         net_profit |-> df_sorted[i].net_profit]],
                                    LAMBDA r : r.hit)
    IN Returns(IF Len(revenge_trades) >= 3
               THEN <<Insight("behavioral_warning", <<>>,
                              Mean(NetProfits(revenge_trades)), 51)>>
               ELSE <<>>, frame)

analyze_profit_taking_behavior(frame) ==
    LET profitable_trades == SelectSeq(frame.rows, LAMBDA r : r.net_profit > 0)
        losing_trades == SelectSeq(frame.rows, LAMBDA r : r.net_profit < 0)
        wS == TotalProfit(profitable_trades)
        wN == Len(profitable_trades)
        lS == Abs(TotalProfit(losing_trades))
        lN == Len(losing_trades)
    IN Returns(IF wN > 0 /\ lN > 0 /\ lS * wN > 2 * wS * lN
               THEN <<Insight("behavioral_pattern", <<>>,
                              Hundredths(lS * wN - wS * lN, lN * wN), 54)>>
               ELSE <<>>, frame)

analyze_entry_timing_precision(frame) ==
    LET trades_with_sl == SelectSeq(frame.rows, LAMBDA r : r.stop_loss # Null)
        good_entries == SelectSeq(trades_with_sl, LAMBDA r :
            /\ r.net_profit > 0
            /\ r.close_price # Null
            /\ 2 * Abs(r.close_price - r.open_price) > Abs(r.open_price - r.stop_loss))
        \* a close_price column of None only is an object column: None - float
        all_open == \A i \in DOMAIN frame.rows : frame.rows[i].close_price = Null
    IN IF trades_with_sl # <<>> /\ all_open THEN Raises(frame) ELSE
       Returns(IF /\ Len(good_entries) >= 5
                  /\ 10 * Len(good_entries) > 7 * Len(trades_with_sl)
               THEN <<Insight("skill_recognition", <<>>,
                              Frac(Len(good_entries), Len(trades_with_sl)), 51)>>
               ELSE <<>>, frame)

\* The insight's text names revenge_success, the share of winners among the
\* rows labelled quick_revenge.index + 1 that exist: the title holds the number
\* of those winners and the number of those rows (0 rows: revenge_success = 0.0).
\* sort_values keeps every row's label, its position in the table from 0.
analyze_emotional_trading_patterns(frame) ==
    LET rows == frame.rows
        df_sorted == SortByOpenTime([i \in DOMAIN rows |->
                                        [label |-> i - 1,
                                         open_time |-> rows[i].open_time,
                                         net_profit |-> rows[i].net_profit]])
        \* losses whose next trade (NaT for the last row) opens within 15 minutes
        quick_revenge == {i \in DOMAIN df_sorted :
                             /\ df_sorted[i].net_profit < 0
                             /\ i < Len(df_sorted)
                             /\ df_sorted[i + 1].open_time - df_sorted[i].open_time < 15}
        next_indices == {df_sorted[i].label + 1 : i \in quick_revenge}
        valid_next_indices == {idx \in next_indices : idx <= Len(rows) - 1}
        winners == {idx \in valid_next_indices : rows[idx + 1].net_profit > 0}
    IN Returns(IF Cardinality(quick_revenge) >= 3
               THEN <<Insight("emotional_trading",
                              <<Cardinality(winners), Cardinality(valid_next_indices)>>,
                              Num(Cardinality(quick_revenge)), 48)>>
               ELSE <<>>, frame)

analyze_diversification_efficiency(frame) ==
    LET syms == UniqueSymbols(frame.rows)
        symbol_profits == [k \in syms |-> TotalProfit(WithSymbol(frame.rows, k))]
        total_profit == SetSum(syms, symbol_profits)
        symbol_profits_positive == {k \in syms : symbol_profits[k] > 0}
        best_pair == IdxMax(symbol_profits_positive, symbol_profits)
    IN Returns(IF /\ Cardinality(syms) >= 3
                  /\ total_profit > 0
                  /\ symbol_profits_positive # {}
                  /\ 5 * symbol_profits[best_pair] > 4 * total_profit
               THEN <<Insight("concentration_risk", <<best_pair>>,
                              Frac(symbol_profits[best_pair], total_profit), 51)>>
               ELSE <<>>, frame)

\* The values f[k], k in S, in ascending order (Series.sort_values()).
RECURSIVE SortedValues(_, _)
SortedValues(S, f) ==
    IF S = {} THEN <<>>
    ELSE LET k == CHOOSE x \in S : \A j \in S : ~ValLess(f[j], f[x])
         IN <<f[k]>> \o SortedValues(S \ {k}, f)

\* v > Series.quantile(tenths / 10) for the ascending values sorted, with
\* linear interpolation between sorted[lo] and sorted[lo + 1].
AboveQuantile(v, sorted, tenths) ==
    LET pos == tenths * (Len(sorted) - 1)
        lo == pos \div 10 + 1
    IN IF pos % 10 # 0 /\ ValLess(sorted[lo], sorted[lo + 1])
       THEN ~ValLess(v, sorted[lo + 1])
       ELSE ValLess(sorted[lo], v)

\* v < Series.quantile(tenths / 10)
BelowQuantile(v, sorted, tenths) ==
    LET pos == tenths * (Len(sorted) - 1)
        lo == pos \div 10 + 1
    IN IF pos % 10 # 0 /\ ValLess(sorted[lo], sorted[lo + 1])
       THEN ~ValLess(sorted[lo], v)
       ELSE ValLess(v, sorted[lo])

analyze_capital_utilization(frame) ==
    LET rows == frame.rows
        mutated == SetColumn(frame, "date", DateColumn(rows))
        days == Range(mutated.extra["date"])
        daily_volume == [d \in days |-> SeqSum(Col(OnDate(rows, d), "volume"))]
        daily_profit == [d \in days |-> TotalProfit(OnDate(rows, d))]
        \* profit / volume, with inf and NaN (no volume) dropped
        kept == {d \in days : daily_volume[d] # 0}
        daily_efficiency == [d \in kept |-> Frac(daily_profit[d], daily_volume[d])]
        sorted == SortedValues(kept, daily_efficiency)
        high_efficiency_days == {d \in kept : AboveQuantile(daily_efficiency[d], sorted, 8)}
        low_efficiency_days == {d \in kept : BelowQuantile(daily_efficiency[d], sorted, 2)}
        cents == [d \in kept |-> QuoT(100 * daily_profit[d], daily_volume[d])]
        hS == SetSum(high_efficiency_days, cents)
        hN == Cardinality(high_efficiency_days)
        lS == SetSum(low_efficiency_days, cents)
        lN == Cardinality(low_efficiency_days)
    IN Returns(IF Cardinality(kept) >= 10 /\ hN >= 3 /\ lN >= 3
               THEN <<Insight("capital_efficiency", <<>>,
                              Frac(QuoT(hS * lN - lS * hN, hN * lN), 100), 48)>>
               ELSE <<>>, mutated)

analyze_compounding_effectiveness(frame) ==
    LET times == {frame.rows[i].open_time : i \in DOMAIN frame.rows}
        total_days == (SetMax(times) - SetMin(times)) \div 1440
        midpoint == SetMin(times) + (total_days \div 2) * 1440
        first_half == SelectSeq(frame.rows, LAMBDA r : r.open_time <= midpoint)
        second_half == SelectSeq(frame.rows, LAMBDA r : r.open_time > midpoint)
    IN Returns(IF /\ total_days > 60
                  /\ first_half # <<>>
                  /\ second_half # <<>>
                  /\ 2 * TotalProfit(second_half) > 3 * TotalProfit(first_half)
               THEN <<Insight("growth_acceleration", <<>>,
                              Num(TotalProfit(second_half) - TotalProfit(first_half)), 48)>>
               ELSE <<>>, frame)

\* The loop alone: a streak still running at the last trade is not collected.
RECURSIVE WinLoopClosedOnly(_, _, _, _)
WinLoopClosedOnly(profits, i, winning_streaks, current_streak) ==
    IF i > Len(profits)
    THEN winning_streaks
    ELSE IF profits[i] > 0
         THEN WinLoopClosedOnly(profits, i + 1, winning_streaks, current_streak + 1)
         ELSE WinLoopClosedOnly(profits, i + 1,
                                IF current_streak > 0
                                THEN Append(winning_streaks, current_streak)
                                ELSE winning_streaks,
                                0)

\* The loop of _analyze_winning_streaks over net_profit[i..], and the append
\* of the running streak after it.
RECURSIVE WinLoop(_, _, _, _)
WinLoop(profits, i, winning_streaks, current_streak) ==
    IF i > Len(profits)
    THEN IF current_streak > 0 THEN Append(winning_streaks, current_streak)
         ELSE winning_streaks
    ELSE IF profits[i] > 0
         THEN WinLoop(profits, i + 1, winning_streaks, current_streak + 1)
         ELSE WinLoop(profits, i + 1,
                      IF current_streak > 0 THEN Append(winning_streaks, current_streak)
                      ELSE winning_streaks,
                      0)

analyze_winning_streaks(frame) ==
    LET winning_streaks == WinLoop(NetProfits(SortByOpenTime(frame.rows)), 1, <<>>, 0)
        max_winning_streak == SetMax(Range(winning_streaks))
    IN Returns(IF winning_streaks # <<>> /\ max_winning_streak >= 8
               THEN <<Insight("performance_strength",
                              <<max_winning_streak, SeqSum(winning_streaks),
                                Len(winning_streaks)>>,
                              Num(max_winning_streak), 54)>>
               ELSE <<>>, frame)

\* pd.to_datetime(df['open_time']).dt.isocalendar().week of every row
WeekColumn(rows) == [i \in DOMAIN rows |-> IsoWeek(rows[i].open_time)]

analyze_performance_cycles(frame) ==
    LET rows == frame.rows
        mutated == SetColumn(frame, "week", WeekColumn(rows))
        weeks == SetToSeq(Range(mutated.extra["week"]))
        weekly_profits_list == [w \in DOMAIN weeks |->
            TotalProfit(SelectSeq(rows, LAMBDA r : IsoWeek(r.open_time) = weeks[w]))]
        alternating_pattern == Cardinality({i \in 2..Len(weeks) :
            (weekly_profits_list[i] > 0) # (weekly_profits_list[i - 1] > 0)})
    IN Returns(IF Len(weeks) >= 8 /\ 10 * alternating_pattern > 7 * (Len(weeks) - 1)
               THEN <<Insight("cyclical_pattern", <<>>,
                              Frac(alternating_pattern, Len(weeks) - 1), 45)>>
               ELSE <<>>, mutated)

----------------------------------------------------------------------------
\* The detector calls of discover_all_insights, in the order of the code.
NumDetectors == 23

Detector(k, frame) ==
    CASE k = 1 -> analyze_time_patterns(frame)
      [] k = 2 -> analyze_trading_sessions(frame)
      [] k = 3 -> analyze_day_of_week_patterns(frame)
      [] k = 4 -> analyze_month_seasonality(frame)
      [] k = 5 -> analyze_pair_correlations(frame)
      [] k = 6 -> analyze_lot_size_optimization(frame)
      [] k = 7 -> analyze_position_duration(frame)
      [] k = 8 -> analyze_stop_loss_effectiveness(frame)
      [] k = 9 -> analyze_take_profit_patterns(frame)
      [] k = 10 -> analyze_consecutive_losses(frame)
      [] k = 11 -> analyze_overtrading_patterns(frame)
      [] k = 12 -> analyze_news_impact_times(frame)
      [] k = 13 -> analyze_weekend_gap_exposure(frame)
      [] k = 14 -> analyze_economic_event_correlation(frame)
      [] k = 15 -> analyze_revenge_trading(frame)
      [] k = 16 -> analyze_profit_taking_behavior(frame)
      [] k = 17 -> analyze_entry_timing_precision(frame)
      [] k = 18 -> analyze_emotional_trading_patterns(frame)
      [] k = 19 -> analyze_diversification_efficiency(frame)
      [] k = 20 -> analyze_capital_utilization(frame)
      [] k = 21 -> analyze_compounding_effectiveness(frame)
      [] k = 22 -> analyze_winning_streaks(frame)
      [] k = 23 -> analyze_performance_cycles(frame)

----------------------------------------------------------------------------
\* Detector library: PatternDetector (the basic code path)

\* The per-bucket insights of _analyze_hourly_patterns: the best hour always,
\* the worst one when it lost more than $50.
analyze_hourly_patterns(frame) ==
    LET rows == frame.rows
        total == [h \in 0..23 |-> TotalProfit(AtHour(rows, h))]
        count == [h \in 0..23 |-> Len(AtHour(rows, h))]
        significant_hours == {h \in 0..23 : count[h] >= 5}
        best_hour == IdxMax(significant_hours, total)
        worst_hour == IdxMin(significant_hours, total)
    IN IF significant_hours = {} THEN <<>>
       ELSE <<Insight("time_pattern", <<"most_profitable_hour", best_hour>>,
                      Num(total[best_hour]), CappedConfidence(57, count[best_hour], 20))>>
            \o (IF total[worst_hour] < 0 - 50
                THEN <<Insight("time_pattern", <<"least_profitable_hour", worst_hour>>,
                               Num(total[worst_hour]),
                               CappedConfidence(54, count[worst_hour], 20))>>
                ELSE <<>>)

analyze_daily_patterns(frame) ==
    LET rows == frame.rows
        OnDay(d) == SelectSeq(rows, LAMBDA r : r.day_of_week = d)
        total == [d \in 0..6 |-> TotalProfit(OnDay(d))]
        count == [d \in 0..6 |-> Len(OnDay(d))]
        significant_days == {d \in 0..6 : count[d] >= 3}
        best_day_idx == IdxMax(significant_days, total)
    IN IF significant_days = {} THEN <<>>
       ELSE <<Insight("time_pattern", <<"most_profitable_day", best_day_idx>>,
                      Num(total[best_day_idx]),
                      CappedConfidence(51, count[best_day_idx], 10))>>
            \o (IF 4 \in significant_days /\ 10 * Wins(OnDay(4)) < 4 * count[4]
                THEN <<Insight("time_pattern", <<"friday_warning">>, Num(total[4]), 45)>>
                ELSE <<>>)

\* Asian, European, US and Overlap_EU_US, in the order of the dictionary.
BasicSessionHours == <<0..7, 7..15, 13..21, 13..15>>

BasicSessionInsight(rows, k) ==
    LET session_df == SelectSeq(rows, LAMBDA r : r.hour_opened \in BasicSessionHours[k])
        session_profit == TotalProfit(session_df)
        trade_count == Len(session_df)
    IN IF trade_count < 5 THEN <<>>
       ELSE IF session_profit > 100 \/ 10 * Wins(session_df) > 6 * trade_count
            THEN <<Insight("session_pattern", <<k>>, Num(session_profit),
                           CappedConfidence(48, trade_count, 15))>>
            ELSE <<>>

analyze_session_patterns(frame) ==
    BasicSessionInsight(frame.rows, 1) \o BasicSessionInsight(frame.rows, 2)
    \o BasicSessionInsight(frame.rows, 3) \o BasicSessionInsight(frame.rows, 4)

find_best_performing_pairs(frame) ==
    LET rows == frame.rows
        total == [k \in DOMAIN Symbols |-> TotalProfit(WithSymbol(rows, k))]
        count == [k \in DOMAIN Symbols |-> Len(WithSymbol(rows, k))]
        significant_pairs == {k \in DOMAIN Symbols : count[k] >= 5}
        best_pair == IdxMax(significant_pairs, total)
    IN IF significant_pairs = {} THEN <<>>
       ELSE <<Insight("pair_performance", <<"top", best_pair>>, Num(total[best_pair]),
                      CappedConfidence(54, count[best_pair], 20))>>

find_worst_performing_pairs(frame) ==
    LET rows == frame.rows
        total == [k \in DOMAIN Symbols |-> TotalProfit(WithSymbol(rows, k))]
        count == [k \in DOMAIN Symbols |-> Len(WithSymbol(rows, k))]
        problem_pairs == {k \in DOMAIN Symbols : count[k] >= 3 /\ total[k] < 0 - 50}
        worst_pair == IdxMin(problem_pairs, total)
    IN IF problem_pairs = {} THEN <<>>
       ELSE <<Insight("pair_performance", <<"under", worst_pair>>, Num(total[worst_pair]),
                      CappedConfidence(51, count[worst_pair], 15))>>

\* profit_std / abs(avg_profit) in hundredths; an infinite or undefined ratio
\* (avg_profit = 0) is replaced by 0.
VolatilityRatio100(profits) ==
    IF SeqSum(profits) = 0 THEN 0
    ELSE (StdCents(profits) * Len(profits)) \div Abs(SeqSum(profits))

analyze_pair_risk_patterns(frame) ==
    LET rows == frame.rows
        pair_stats == {k \in DOMAIN Symbols : Len(WithSymbol(rows, k)) >= 5}
        volatility_ratio == [k \in DOMAIN Symbols |->
                               IF k \in pair_stats
                               THEN VolatilityRatio100(NetProfits(WithSymbol(rows, k)))
                               ELSE 0]
        high_vol_pair == IdxMax(pair_stats, volatility_ratio)
    IN IF pair_stats = {} THEN <<>>
       ELSE IF volatility_ratio[high_vol_pair] > 200
            THEN <<Insight("risk_analysis", <<high_vol_pair>>,
                           Frac(volatility_ratio[high_vol_pair], 100), 45)>>
            ELSE <<>>

\* The six detectors of the basic path: 1-3 are the time group, 4-6 the pair group.
BasicDetector(k, frame) ==
    CASE k = 1 -> analyze_hourly_patterns(frame)
      [] k = 2 -> analyze_daily_patterns(frame)
      [] k = 3 -> analyze_session_patterns(frame)
      [] k = 4 -> find_best_performing_pairs(frame)
      [] k = 5 -> find_worst_performing_pairs(frame)
      [] k = 6 -> analyze_pair_risk_patterns(frame)

\* detect_time_patterns / detect_pair_patterns: each builds its own table and
\* returns [] at once when it is empty; otherwise the three detectors of the
\* group run in order.  ran lists the detectors that were called.
DetectGroup(trades, group) ==
    LET frame == get_trades_dataframe(trades) IN
    IF IsEmpty(frame) THEN [out |-> <<>>, ran |-> <<>>]
    ELSE [out |-> BasicDetector(group[1], frame) \o BasicDetector(group[2], frame)
                  \o BasicDetector(group[3], frame),
          ran |-> group]

detect_time_patterns(trades) == DetectGroup(trades, <<1, 2, 3>>)

detect_pair_patterns(trades) == DetectGroup(trades, <<4, 5, 6>>)

\* The basic sort key (confidence, abs(value)) compared as a tuple.
BasicKeyLess(x, y) ==
    \/ x.confidence < y.confidence
    \/ x.confidence = y.confidence /\ ValLess(AbsVal(x.value), AbsVal(y.value))

RECURSIVE InsertBasic(_, _)
InsertBasic(sorted, x) ==
    IF sorted = <<>> THEN <<x>>
    ELSE IF BasicKeyLess(Head(sorted), x)
         THEN <<x>> \o sorted
         ELSE <<Head(sorted)>> \o InsertBasic(Tail(sorted), x)

\* The ranking of the advanced path (confidence * |value|) in place of the tuple.
SortBasicByProduct(xs) == SortRanked(xs)

RECURSIVE SortBasic(_)
SortBasic(xs) ==
    IF xs = <<>> THEN <<>>
    ELSE InsertBasic(SortBasic(SubSeq(xs, 1, Len(xs) - 1)), xs[Len(xs)])

----------------------------------------------------------------------------
\* Trade records of the account under analysis

\* Copy i (from 0) of a template: copies follow each other gap minutes apart
\* and take their profit and volume from the template's cycles.
TradeOf(tpl, i) ==
    [symbol      |-> tpl.symbol,
     volume      |-> tpl.volumes[(i % Len(tpl.volumes)) + 1],
     open_price  |-> tpl.open_price,
     close_price |-> tpl.close_price,
     stop_loss   |-> tpl.stop_loss,
     take_profit |-> tpl.take_profit,
     profit      |-> tpl.profits[(i % Len(tpl.profits)) + 1],
     commission  |-> tpl.commission,
     swap        |-> tpl.swap,
     open_time   |-> tpl.base + i * tpl.gap,
     close_time  |-> IF tpl.minutes = Null THEN Null ELSE tpl.base + i * tpl.gap + tpl.minutes]

Block(tpl, n) == [i \in 1..n |-> TradeOf(tpl, i - 1)]

At(day, hour, minute) == (day * 24 + hour) * 60 + minute

Palette ==
    << \* Monday 09:01, 10 minutes apart, winners closed at the take-profit price
       [symbol |-> "EURUSD", volumes |-> <<10>>, open_price |-> 11000, close_price |-> 11050,
        stop_loss |-> 10950, take_profit |-> 11050, profits |-> <<60, 90>>,
        commission |-> 0 - 2, swap |-> 0, base |-> At(0, 9, 1), gap |-> 10, minutes |-> 30],
       \* Monday 10:02, mixed results, no stop-loss, larger size
       [symbol |-> "GBPUSD", volumes |-> <<20, 50>>, open_price |-> 12500, close_price |-> 12400,
        stop_loss |-> Null, take_profit |-> 12700, profits |-> <<0 - 250, 40>>,
        commission |-> 0 - 3, swap |-> 0 - 1, base |-> At(0, 10, 2), gap |-> 7, minutes |-> 90],
       \* Friday 20:03 one week later, closed at once (no duration)
       [symbol |-> "USDJPY", volumes |-> <<5>>, open_price |-> 15000, close_price |-> 15000,
        stop_loss |-> 14900, take_profit |-> Null, profits |-> <<0 - 40>>,
        commission |-> 0, swap |-> 0, base |-> At(11, 20, 3), gap |-> 60, minutes |-> 0],
       \* Sunday 03:04 in February, still open
       [symbol |-> "AUDUSD", volumes |-> <<30>>, open_price |-> 6500, close_price |-> Null,
        stop_loss |-> Null, take_profit |-> Null, profits |-> <<120, 0 - 30, 0>>,
        commission |-> 0, swap |-> 2, base |-> At(34, 3, 4), gap |-> 1440, minutes |-> Null] >>

\* Largest number of copies of one template in an enumerated account.
MaxCopies == 3

RECURSIVE Blocks(_, _)
Blocks(counts, k) ==
    IF k > Len(Palette) THEN <<>>
    ELSE Block(Palette[k], counts[k]) \o Blocks(counts, k + 1)

\* A trading history of eleven weeks, one tuple per trade in the order of the
\* table: <<day, hour, minute, symbol, volume, net profit, stop-loss set,
\* take-profit (0 none, 1 hit, 2 set but closed by hand), closed>>.
History ==
    << <<0, 7, 0, 2, 10, 40, 1, 1, 1>>,
       <<0, 13, 0, 2, 10, 60, 1, 2, 1>>,
       <<4, 7, 10, 2, 10, 40, 1, 1, 1>>,
       <<4, 13, 10, 2, 10, 60, 1, 2, 1>>,
       <<4, 14, 10, 2, 40, 70, 1, 0, 1>>,
       <<4, 15, 30, 4, 10, 0 - 210, 0, 0, 1>>,
       <<4, 16, 0, 3, 10, 0 - 210, 0, 0, 1>>,
       <<4, 16, 10, 3, 10, 0 - 210, 0, 0, 1>>,
       <<4, 16, 20, 3, 20, 0 - 210, 0, 0, 1>>,
       <<4, 16, 30, 3, 10, 0 - 210, 0, 0, 1>>,
       <<4, 16, 40, 3, 20, 0 - 210, 0, 0, 1>>,
       <<4, 16, 50, 2, 40, 60, 1, 0, 1>>,
       <<4, 20, 5, 1, 10, 0 - 300, 0, 0, 1>>,
       <<8, 13, 0, 2, 10, 60, 1, 0, 1>>,
       <<8, 13, 10, 2, 10, 60, 1, 0, 1>>,
       <<8, 13, 20, 2, 10, 60, 1, 0, 1>>,
       <<8, 13, 30, 2, 10, 60, 1, 0, 1>>,
       <<8, 13, 40, 2, 10, 60, 1, 0, 1>>,
       <<8, 13, 50, 2, 10, 60, 1, 0, 1>>,
       <<8, 14, 0, 2, 10, 60, 1, 0, 1>>,
       <<8, 14, 10, 2, 10, 60, 1, 0, 1>>,
       <<8, 14, 20, 2, 10, 60, 1, 0, 1>>,
       <<15, 7, 20, 2, 10, 40, 1, 1, 1>>,
       <<15, 10, 0, 2, 10, 0 - 150, 0, 0, 1>>,
       <<22, 7, 30, 2, 10, 40, 1, 1, 1>>,
       <<22, 14, 0, 2, 10, 60, 1, 2, 1>>,
       <<27, 3, 0, 2, 10, 300, 0, 0, 1>>,
       <<29, 7, 40, 2, 10, 40, 1, 1, 1>>,
       <<29, 10, 10, 2, 10, 0 - 150, 0, 0, 1>>,
       <<36, 9, 0, 2, 10, 60, 1, 0, 1>>,
       <<36, 13, 20, 2, 10, 60, 1, 0, 1>>,
       <<36, 14, 20, 2, 10, 60, 1, 0, 1>>,
       <<43, 7, 50, 2, 10, 40, 1, 1, 1>>,
       <<43, 10, 20, 2, 10, 0 - 150, 0, 0, 1>>,
       <<50, 9, 10, 2, 10, 60, 1, 0, 1>>,
       <<50, 13, 30, 2, 10, 60, 1, 0, 1>>,
       <<50, 14, 30, 2, 10, 60, 1, 0, 1>>,
       <<57, 7, 55, 2, 10, 40, 1, 1, 1>>,
       <<57, 10, 30, 2, 10, 0 - 150, 0, 0, 1>>,
       <<64, 9, 20, 2, 10, 110, 1, 0, 1>>,
       <<64, 13, 40, 2, 10, 110, 1, 0, 1>>,
       <<64, 14, 40, 2, 10, 110, 1, 0, 0>>,
       <<71, 9, 30, 2, 10, 110, 1, 0, 1>>,
       <<71, 13, 50, 2, 10, 110, 1, 0, 1>>,
       <<71, 14, 50, 2, 10, 110, 1, 0, 1>> >>

HistoryTrade(t) ==
    LET close == IF t[9] = 0 THEN Null ELSE IF t[6] > 0 THEN 10080 ELSE 9950 IN
    [symbol      |-> Symbols[t[4]],
     volume      |-> t[5],
     open_price  |-> 10000,
     close_price |-> close,
     stop_loss   |-> IF t[7] = 1 THEN 9900 ELSE Null,
     take_profit |-> IF t[8] = 0 THEN Null ELSE IF t[8] = 1 THEN close ELSE 10300,
     profit      |-> t[6] + 2,
     commission  |-> 0 - 2,
     swap        |-> 0,
     open_time   |-> At(t[1], t[2], t[3]),
     close_time  |-> IF t[9] = 0 THEN Null ELSE At(t[1], t[2], t[3]) + 30]

\* Longest losing run of a streak account.
MaxLossRun == 6

\* Lengths of the second winning run of a streak account.
WinRuns == {0, 1, 3, 7, 8}

\* The trade of day `day` of a streak account: one EURUSD trade a day at
\* 11:00, a winner (net +50) or a loser (net -30).
StreakTrade(day, won) ==
    [symbol      |-> "EURUSD",
     volume      |-> 10,
     open_price  |-> 10000,
     close_price |-> IF won THEN 10080 ELSE 9950,
     stop_loss   |-> 9900,
     take_profit |-> Null,
     profit      |-> IF won THEN 52 ELSE 0 - 28,
     commission  |-> 0 - 2,
     swap        |-> 0,
     open_time   |-> At(day, 11, 0),
     close_time  |-> At(day, 11, 30)]

\* first winners, then a losers, b winners and c losers, one a day; the table
\* holds them as the database returned them, here the newest first.
StreakAccount(first_wins, a, b, c) ==
    LET n == first_wins + a + b + c
        won(d) == d <= first_wins \/ (d > first_wins + a /\ d <= first_wins + a + b)
    IN [i \in 1..n |-> StreakTrade(n - i, won(n - i + 1))]

\* Short trading records, one tuple per trade as in History, in the order the
\* database returns them.
Scenarios ==
    << \* Asian session: one large winner, then small losers
       << <<1, 2, 0, 2, 10, 400, 1, 0, 1>>,
          <<1, 2, 10, 2, 10, 0 - 30, 1, 0, 1>>,
          <<1, 2, 20, 2, 10, 0 - 30, 1, 0, 1>>,
          <<1, 2, 30, 2, 10, 0 - 30, 1, 0, 1>>,
          <<1, 2, 40, 2, 10, 0 - 30, 1, 0, 1>> >>,
       \* three quick losers and a winner, returned newest first
       << <<2, 10, 14, 2, 10, 50, 1, 0, 1>>,
          <<2, 10, 10, 2, 10, 0 - 30, 1, 0, 1>>,
          <<2, 10, 5, 2, 10, 0 - 30, 1, 0, 1>>,
          <<2, 10, 0, 2, 10, 0 - 30, 1, 0, 1>> >>,
       \* a quiet week, two late-Friday winners and a loss opened Sunday 04:30
       << <<1, 10, 0, 2, 10, 50, 1, 0, 1>>,
          <<1, 11, 0, 2, 10, 60, 1, 0, 1>>,
          <<4, 21, 0, 2, 10, 50, 1, 0, 1>>,
          <<4, 21, 30, 2, 10, 60, 1, 0, 1>>,
          <<6, 4, 30, 2, 10, 0 - 400, 0, 0, 1>> >>,
       \* three winners at 09:00, then five losers at 10:00
       << <<2, 9, 0, 2, 10, 100, 1, 0, 1>>,
          <<2, 9, 20, 2, 10, 100, 1, 0, 1>>,
          <<2, 9, 40, 2, 10, 100, 1, 0, 1>>,
          <<2, 10, 0, 2, 10, 0 - 30, 1, 0, 1>>,
          <<3, 10, 0, 2, 10, 0 - 30, 1, 0, 1>>,
          <<7, 10, 0, 2, 10, 0 - 30, 1, 0, 1>>,
          <<8, 10, 0, 2, 10, 0 - 30, 1, 0, 1>>,
          <<9, 10, 0, 2, 10, 0 - 30, 1, 0, 1>> >>,
       \* one trade a day with two break-even trades, ending on two losers
       << <<0, 12, 0, 2, 10, 50, 1, 0, 1>>,
          <<1, 12, 0, 2, 10, 0, 1, 0, 1>>,
          <<2, 12, 0, 2, 10, 50, 1, 0, 1>>,
          <<3, 12, 0, 2, 10, 0 - 30, 1, 0, 1>>,
          <<4, 12, 0, 2, 10, 0, 1, 0, 1>>,
          <<7, 12, 0, 2, 10, 0 - 30, 1, 0, 1>>,
          <<8, 12, 0, 2, 10, 0 - 30, 1, 0, 1>> >> >>

\* Every scenario as it stood after each of its trades.
ScenarioAccounts ==
    UNION {{[i \in 1..n |-> HistoryTrade(Scenarios[s][i])] : n \in 1..Len(Scenarios[s])} :
           s \in DOMAIN Scenarios}

\* The accounts analysed: every combination of up to MaxCopies copies of each
\* template, the history as it stood after each of its trades, the streak
\* accounts and the scenarios.
Accounts ==
    {Blocks(counts, 1) : counts \in [DOMAIN Palette -> 0..MaxCopies]}
    \cup {[i \in 1..n |-> HistoryTrade(History[i])] : n \in 1..Len(History)}
    \cup {StreakAccount(w, a, b, c) : w \in 0..1, a \in 0..MaxLossRun, b \in WinRuns,
                                      c \in 0..MaxLossRun}
    \cup ScenarioAccounts

----------------------------------------------------------------------------
\* discover_all_insights behind GET /insights/{account_id}

Init ==
    /\ db \in Accounts
    /\ df = EmptyFrame
    /\ pc = "start"
    /\ ran = <<>>
    /\ insights = <<>>
    /\ result = <<>>
    /\ pass = 1
    /\ first = <<>>
    /\ pool = [next |-> 1, running |-> {}, raced |-> {}, out |-> <<>>]

\* A list that survives from one run to the next.
KeepInsightList(previous) == previous

\* Line 24: insights = [], a new list for every run.
NewInsightList(previous) == <<>>

\* Lines 19-22: the table is built; an empty table returns [] at once.
BuildEmpty ==
    /\ pc = "start"
    /\ IsEmpty(get_trades_dataframe(db))
    /\ df' = get_trades_dataframe(db)
    /\ result' = <<>>
    /\ pc' = "returned"
    /\ UNCHANGED <<db, ran, insights, pass, first, pool>>

BuildTable ==
    /\ pc = "start"
    /\ ~IsEmpty(get_trades_dataframe(db))
    /\ df' = get_trades_dataframe(db)
    /\ insights' = NewInsightList(insights)
    /\ pc' = "detect"
    /\ UNCHANGED <<db, ran, result, pass, first, pool>>

\* Lines 27-67: insights.extend(detector(df)), the next detector of the list.
\* Nothing catches an exception a detector raises.
RunDetector ==
    /\ pc = "detect"
    /\ Len(ran) < NumDetectors
    /\ LET call == Detector(Len(ran) + 1, df) IN
       /\ ~call.raised
       /\ insights' = insights \o call.out
       /\ df' = call.df
       /\ ran' = Append(ran, Len(ran) + 1)
    /\ UNCHANGED <<db, pc, result, pass, first, pool>>

DetectorRaises ==
    /\ pc = "detect"
    /\ Len(ran) < NumDetectors
    /\ LET call == Detector(Len(ran) + 1, df) IN
       /\ call.raised
       /\ df' = call.df
    /\ pc' = "raised"
    /\ UNCHANGED <<db, ran, insights, result, pass, first, pool>>

\* Lines 69-72: sort by importance, return the top 20.
Rank ==
    /\ pc = "detect"
    /\ Len(ran) = NumDetectors
    /\ result' = RankAndSelect(insights)
    /\ pc' = "returned"
    /\ UNCHANGED <<db, df, ran, insights, pass, first, pool>>

\* get_trading_insights: the list is the response; any exception becomes an
\* HTTP 500 error.
Respond ==
    /\ pc = "returned"
    /\ pc' = "http_200"
    /\ UNCHANGED <<db, df, ran, insights, result, pass, first, pool>>

RespondError ==
    /\ pc = "raised"
    /\ pc' = "http_500"
    /\ UNCHANGED <<db, df, ran, insights, result, pass, first, pool>>

----------------------------------------------------------------------------
\* get_basic_trading_insights behind GET /insights/basic/{account_id}

BasicTimePatterns ==
    /\ pc = "start"
    /\ insights' = detect_time_patterns(db).out
    /\ ran' = detect_time_patterns(db).ran
    /\ pc' = "basic_time"
    /\ UNCHANGED <<db, df, result, pass, first, pool>>

BasicPairPatterns ==
    /\ pc = "basic_time"
    /\ insights' = insights \o detect_pair_patterns(db).out
    /\ ran' = ran \o detect_pair_patterns(db).ran
    /\ pc' = "basic_pair"
    /\ UNCHANGED <<db, df, result, pass, first, pool>>

\* The combined list sorted by (confidence, |value|), not truncated.
BasicRespond ==
    /\ pc = "basic_pair"
    /\ result' = SortBasic(insights)
    /\ pc' = "basic_200"
    /\ UNCHANGED <<db, df, ran, insights, pass, first, pool>>

Next ==
    \/ BuildEmpty
    \/ BuildTable
    \/ RunDetector
    \/ DetectorRaises
    \/ Rank
    \/ Respond
    \/ RespondError
    \/ BasicTimePatterns
    \/ BasicPairPatterns
    \/ BasicRespond

Spec == Init /\ [][Next]_vars

----------------------------------------------------------------------------
\* The detector set and the ranking run a second time on the table object of
\* the first run (lines 24-72 again, the table is not rebuilt).

RunAgain ==
    /\ pc = "returned"
    /\ pass = 1
    /\ df.rows # <<>>
    /\ pass' = 2
    /\ first' = result
    /\ insights' = NewInsightList(insights)
    /\ ran' = <<>>
    /\ pc' = "detect"
    /\ UNCHANGED <<db, df, result, pool>>

NextTwice ==
    \/ Next
    \/ RunAgain

SpecTwice == Init /\ [][NextTwice]_vars

----------------------------------------------------------------------------
\* The detector calls of lines 27-67 handed to a pool of workers over the one
\* table object: calls start in the order of the code, at most MaxInFlight are
\* in flight, and they finish in any order.  A call takes effect (its column
\* write, its return) when it finishes.

MaxInFlight == 2

\* The outcome of call k alone on a freshly built table.
Alone(k) == Detector(k, get_trades_dataframe(db))

\* Call k assigns a column of the shared frame (lines 242, 452-460, 720, 820).
WritesFrame(k) == DOMAIN Alone(k).df.extra # {}

StartDetector ==
    /\ pc = "detect"
    /\ pool.next <= NumDetectors
    /\ Cardinality(pool.running) < MaxInFlight
    /\ pool' = [pool EXCEPT !.next = @ + 1, !.running = @ \cup {pool.next}]
    /\ UNCHANGED <<db, df, pc, ran, insights, result, pass, first>>

\* A call that was in flight while another call assigned a column read a
\* frame that was being modified: pandas gives no guarantee for it, the call
\* may return what it returns alone or fail.
FinishDetector ==
    /\ pc = "detect"
    /\ \E k \in pool.running :
         LET call == Detector(k, df)
             others == pool.running \ {k}
         IN /\ ~call.raised
            /\ df' = call.df
            /\ pool' = [pool EXCEPT !.running = others,
                                    !.raced = IF WritesFrame(k) THEN others ELSE @ \ {k},
                                    !.out = (k :> [raised |-> FALSE, out |-> call.out]) @@ @]
    /\ UNCHANGED <<db, pc, ran, insights, result, pass, first>>

FinishRaises ==
    /\ pc = "detect"
    /\ \E k \in pool.running :
         /\ Detector(k, df).raised \/ k \in pool.raced
         /\ pool' = [pool EXCEPT !.running = @ \ {k},
                                 !.raced = @ \ {k},
                                 !.out = (k :> [raised |-> TRUE, out |-> <<>>]) @@ @]
    /\ pc' = "raised"
    /\ UNCHANGED <<db, df, ran, insights, result, pass, first>>

\* The outputs are gathered in the order of the calls, then lines 69-72.
GatherAndRank ==
    /\ pc = "detect"
    /\ pool.next > NumDetectors
    /\ pool.running = {}
    /\ LET RECURSIVE Gather(_)
           Gather(k) == IF k > NumDetectors THEN <<>>
                        ELSE pool.out[k].out \o Gather(k + 1)
       IN /\ insights' = Gather(1)
          /\ result' = RankAndSelect(Gather(1))
    /\ ran' = [k \in 1..NumDetectors |-> k]
    /\ pc' = "returned"
    /\ UNCHANGED <<db, df, pass, first, pool>>

NextParallel ==
    \/ BuildEmpty
    \/ BuildTable
    \/ StartDetector
    \/ FinishDetector
    \/ FinishRaises
    \/ GatherAndRank
    \/ Respond
    \/ RespondError

\* The pool is exercised on the history as it stood at the end of each day.
InitParallel ==
    /\ Init
    /\ \/ db = <<>>
       \/ /\ Len(db) > 0
          /\ db[1].open_time = HistoryTrade(History[1]).open_time
          /\ \/ Len(db) = Len(History)
             \/ History[Len(db) + 1][1] # History[Len(db)][1]

SpecParallel == InitParallel /\ [][NextParallel]_vars

----------------------------------------------------------------------------
\* _find_consecutive_periods on its own: the hours handed over are the index
\* of nlargest(3, ...), at most 3 distinct hours in any order (kept in first);
\* the groups returned are kept in result and the golden_hours insights the
\* caller's loop emits for them in insights.

HourLists ==
    {<<>>} \cup {<<a>> : a \in 0..23}
    \cup {<<a, b>> : a, b \in 0..23} \cup {<<a, b, c>> : a, b, c \in 0..23}

InitPeriods ==
    /\ db = <<>>
    /\ df = EmptyFrame
    /\ pc = "hours"
    /\ ran = <<>>
    /\ insights = <<>>
    /\ result = <<>>
    /\ pass = 1
    /\ first \in {hs \in HourLists : Cardinality(Range(hs)) = Len(hs)}
    /\ pool = [next |-> 1, running |-> {}, raced |-> {}, out |-> <<>>]

\* Lines 90-107: the groups, and one insight for each group of 2 or more.
FindPeriods ==
    /\ pc = "hours"
    /\ result' = find_consecutive_periods(first)
    /\ insights' = LET periods == SelectSeq(find_consecutive_periods(first),
                                           LAMBDA g : Len(g) >= 2)
                       none == [h \in 0..23 |-> 0]
                   IN [i \in DOMAIN periods |-> GoldenHours(periods[i], none, none)]
    /\ pc' = "periods"
    /\ UNCHANGED <<db, df, ran, pass, first, pool>>

NextPeriods == FindPeriods

SpecPeriods == InitPeriods /\ [][NextPeriods]_vars

----------------------------------------------------------------------------
\* Properties

\* discover_all_insights has returned (the response may have been sent).
Returned == pc \in {"returned", "http_200"}

\* Number of occurrences of x in xs.
Count(xs, x) == Cardinality({i \in DOMAIN xs : xs[i] = x})

\* Position of the first occurrence of x in xs.
FirstIndex(xs, x) == SetMin({i \in DOMAIN xs : xs[i] = x})

SameKey(x, y) == ~ValLess(RankKey(x), RankKey(y)) /\ ~ValLess(RankKey(y), RankKey(x))

\* C1: discover_all_insights returns at most 20 insights, however many
\* candidates the detectors emitted.
AtMostTwentyReturned == Returned => Len(result) <= 20

\* More than 20 candidates were emitted and exactly 20 came back.
TruncationHappened == pc = "returned" /\ Len(insights) > 20 /\ Len(result) = 20

\* C2: the returned list is the candidate list sorted by confidence * |value|
\* in descending order and cut to its first 20: its keys never increase, it
\* holds min(20, candidates) of the candidates, and every candidate left out
\* has a key no greater than that of every returned one.
RankedByImportance ==
    Returned =>
      /\ Len(result) = Min2(20, Len(insights))
      /\ \A i \in 1..(Len(result) - 1) :
           ~ValLess(RankKey(result[i]), RankKey(result[i + 1]))
      /\ \A x \in Range(result) : Count(result, x) <= Count(insights, x)
      /\ \A x \in Range(insights) :
           Count(result, x) < Count(insights, x)
             => \A i \in DOMAIN result : ~ValLess(RankKey(result[i]), RankKey(x))

\* A run in which sorting moved a later candidate with a greater key ahead of
\* an earlier one, and the cut left candidates out.
RankingReordered ==
    /\ pc = "returned"
    /\ Len(insights) > 20
    /\ \E i, j \in DOMAIN insights :
         /\ i < j
         /\ ValLess(RankKey(insights[i]), RankKey(insights[j]))
         /\ Count(result, insights[j]) > 0

\* C3: ranking is stable: of two returned candidates with equal keys the one
\* emitted earlier comes first, and a candidate left out by the cut was
\* emitted after every returned candidate with its key.
StableRanking ==
    Returned =>
      /\ \A i, j \in DOMAIN result :
           (i < j /\ SameKey(result[i], result[j]) /\ result[i] # result[j])
             => FirstIndex(insights, result[i]) < FirstIndex(insights, result[j])
      /\ \A x \in Range(insights) :
           Count(result, x) = 0
             => \A i \in DOMAIN result :
                  SameKey(result[i], x) => FirstIndex(insights, result[i]) < FirstIndex(insights, x)

\* The cut fell inside a group of equal keys: two different candidates of the
\* group were returned and a third was left out.
TieCutByLimit ==
    /\ pc = "returned"
    /\ \E i, j \in DOMAIN result :
         /\ i < j /\ SameKey(result[i], result[j]) /\ result[i] # result[j]
         /\ \E x \in Range(insights) : Count(result, x) = 0 /\ SameKey(result[i], x)

\* C4: every insight, candidate or returned, has a confidence between 0 and 1
\* (0 .. 60 sixtieths).
ConfidenceInRange ==
    /\ \A i \in DOMAIN insights : insights[i].confidence \in 0..60
    /\ \A i \in DOMAIN result : result[i].confidence \in 0..60

\* A golden-hours window of more than 20 trades was returned at its cap of 0.9.
ConfidenceCapped ==
    /\ pc = "returned"
    /\ \E i \in DOMAIN result :
         /\ result[i].type = "golden_hours"
         /\ result[i].confidence = 54
         /\ Len(SelectSeq(df.rows, LAMBDA r : r.hour_opened \in
                            result[i].title[1]..(result[i].title[2] - 1))) > 20

\* C5: no insight carries an undefined or infinite value.
ValuesFinite ==
    /\ \A i \in DOMAIN insights : IsFinite(insights[i].value)
    /\ \A i \in DOMAIN result : IsFinite(result[i].value)

\* C6: a detector that raises is taken to have produced nothing, the others
\* still run and the ranked list is returned: no error leaves discover_all_insights.
FailureIsolated == pc \notin {"raised", "http_500"}

\* C7: no detector changes the table: it never gains a column.
TableNeverMutated == DOMAIN df.extra = {}

\* C8: the detectors share no mutable state and do not depend on each other's
\* order: no call is in flight while another assigns a column of the table,
\* and every call's outcome is its outcome alone on a freshly built table.
DetectorsIndependent ==
    /\ pool.raced = {}
    /\ \A k \in DOMAIN pool.out :
         pool.out[k] = [raised |-> Alone(k).raised, out |-> Alone(k).out]

\* C9: the detector set and the ranking, run a second time on the same table
\* object, return the list of the first run, same insights in the same order.
Idempotent == (pass = 2 /\ Returned) => result = first

\* A second run over a table the first run left with added columns returned
\* a non-empty list.
SecondRunReturned ==
    /\ pass = 2
    /\ pc = "returned"
    /\ result # <<>>
    /\ DOMAIN df.extra # {}

\* C10: with zero trade records the builder returns the empty table, and
\* discover_all_insights, detect_time_patterns and detect_pair_patterns return
\* [] without calling a detector and without raising.
EmptyInputNoInsights ==
    db = <<>> =>
      /\ df = EmptyFrame
      /\ get_trades_dataframe(db) = EmptyFrame
      /\ pc \in {"start", "returned", "http_200", "basic_time", "basic_pair", "basic_200"}
      /\ ran = <<>>
      /\ insights = <<>>
      /\ result = <<>>

\* Both endpoints answered an account without trades.
EmptyAccountAnswered == db = <<>> /\ pc \in {"http_200", "basic_200"}

\* discover_all_insights has built its table.
TableBuilt == pc \in {"detect", "returned", "raised", "http_200", "http_500"}

\* C11: the table has one row per trade record, in the order of the records;
\* in every row net_profit is profit + commission + swap of its record and
\* is_profitable is true exactly when net_profit > 0.
TablePreservesRecords ==
    /\ Len(get_trades_dataframe(db).rows) = Len(db)
    /\ TableBuilt =>
         /\ Len(df.rows) = Len(db)
         /\ \A i \in DOMAIN db :
              /\ df.rows[i].symbol = db[i].symbol
              /\ df.rows[i].open_time = db[i].open_time
              /\ df.rows[i].profit = db[i].profit
              /\ df.rows[i].net_profit = db[i].profit + db[i].commission + db[i].swap
              /\ df.rows[i].is_profitable = (db[i].profit + db[i].commission + db[i].swap > 0)

\* A table of several rows was built in which costs decide the sign: a trade
\* with no gross profit is profitable after swap, and one has costs deducted.
CostsCounted ==
    /\ pc = "detect"
    /\ Len(df.rows) >= 3
    /\ \E i \in DOMAIN df.rows : df.rows[i].profit <= 0 /\ df.rows[i].is_profitable
    /\ \E i \in DOMAIN df.rows : df.rows[i].net_profit < df.rows[i].profit

\* The day of the week of a row by the calendar: open times count minutes
\* from a Monday 00:00, so day 0 is a Monday.
CalendarDay(r) == (r.open_time \div 1440) % 7

CalendarRows(day, fromHour, toHour) ==
    SelectSeq(get_trades_dataframe(db).rows,
              LAMBDA r : CalendarDay(r) = day /\ (r.open_time \div 60) % 24 \in fromHour..toHour)

HasInsight(type) == \E i \in DOMAIN insights : insights[i].type = type

\* C12: day_of_week is 0 for Monday .. 6 for Sunday in every row, is_weekend
\* is true exactly for 5 and 6, and the detectors that pick a weekday pick it
\* by that numbering: the Friday-afternoon, weekend-gap and basic Friday
\* insights rest on trades opened on a Friday (or Sunday), never on Monday's.
MondayIsZero ==
    /\ \A i \in DOMAIN get_trades_dataframe(db).rows :
         LET r == get_trades_dataframe(db).rows[i] IN
         /\ r.day_of_week = CalendarDay(r)
         /\ r.is_weekend = (CalendarDay(r) \in {5, 6})
    /\ (TableBuilt /\ HasInsight("weekly_pattern")) => Len(CalendarRows(4, 15, 23)) >= 3
    /\ (TableBuilt /\ HasInsight("gap_risk"))
         => Len(CalendarRows(4, 20, 23)) + Len(CalendarRows(6, 0, 4)) >= 2
    /\ pc \in {"basic_time", "basic_pair", "basic_200"} =>
         \A i \in DOMAIN insights :
            /\ (insights[i].type = "time_pattern" /\ insights[i].title[1] = "friday_warning")
                 => Len(CalendarRows(4, 0, 23)) >= 3
            /\ (insights[i].type = "time_pattern" /\ insights[i].title[1] = "most_profitable_day")
                 => Len(CalendarRows(insights[i].title[2], 0, 23)) >= 3

\* An account with Monday, Friday and Sunday trades got both the
\* Friday-afternoon and the weekend-gap insight.
WeekdayDetectorsFired ==
    /\ pc = "returned"
    /\ HasInsight("weekly_pattern")
    /\ HasInsight("gap_risk")
    /\ Len(CalendarRows(0, 0, 23)) > 0
    /\ Len(CalendarRows(6, 0, 4)) > 0

\* C13: the basic path returns every insight of detect_time_patterns followed
\* by detect_pair_patterns, sorted by (confidence, |value|) in descending
\* lexicographic order and not truncated.
BasicSortedNotTruncated ==
    pc = "basic_200" =>
      /\ insights = detect_time_patterns(db).out \o detect_pair_patterns(db).out
      /\ Len(result) = Len(insights)
      /\ \A x \in Range(insights) : Count(result, x) = Count(insights, x)
      /\ \A i \in 1..(Len(result) - 1) :
           \/ result[i].confidence > result[i + 1].confidence
           \/ /\ result[i].confidence = result[i + 1].confidence
              /\ ~ValLess(AbsVal(result[i].value), AbsVal(result[i + 1].value))

\* The basic path returned insights of both groups, reordered, with a more
\* confident insight ahead of one of greater value and greater product.
BasicTupleOrderShown ==
    /\ pc = "basic_200"
    /\ detect_time_patterns(db).out # <<>>
    /\ detect_pair_patterns(db).out # <<>>
    /\ result # insights
    /\ \E i, j \in DOMAIN result :
         /\ i < j
         /\ result[i].confidence > result[j].confidence
         /\ ValLess(RankKey(result[i]), RankKey(result[j]))

RowsWithStopLoss == SelectSeq(df.rows, LAMBDA r : r.stop_loss # Null)

RowsWithoutStopLoss == SelectSeq(df.rows, LAMBDA r : r.stop_loss = Null)

\* The smallest net profit of a non-empty group of rows.
WorstNet(rows) == CHOOSE x \in Range(NetProfits(rows)) : \A y \in Range(NetProfits(rows)) : x <= y

\* C14: a trade without a stop-loss is never fatal and never misplaced: the
\* stop-loss detector never raises and never changes the table; it emits
\* nothing when every trade lacks a stop-loss or every trade has one; what it
\* emits compares the worst loss of the trades without a stop-loss with that
\* of the trades with one; and once it has been called the remaining
\* detectors run to the end of the list.
MissingStopLossHarmless ==
    TableBuilt =>
      LET call == analyze_stop_loss_effectiveness(df) IN
      /\ ~call.raised
      /\ call.df = df
      /\ (RowsWithStopLoss = <<>> \/ RowsWithoutStopLoss = <<>>) => call.out = <<>>
      /\ call.out # <<>> =>
           /\ Len(call.out) = 1
           /\ Abs(WorstNet(RowsWithoutStopLoss)) > 2 * Abs(WorstNet(RowsWithStopLoss))
           /\ call.out[1].value =
                Num(Abs(WorstNet(RowsWithoutStopLoss)) - Abs(WorstNet(RowsWithStopLoss)))
      /\ pc \in {"raised", "http_500"} => Len(ran) < 7
      /\ (Returned /\ df.rows # <<>>) => Len(ran) = NumDetectors

\* An account in which no trade has a stop-loss was analysed to the end: the
\* stop-loss detector gave nothing and the other detectors gave the result.
NoStopLossAccountReturned ==
    /\ pc = "returned"
    /\ df.rows # <<>>
    /\ RowsWithStopLoss = <<>>
    /\ result # <<>>
    /\ ~HasInsight("risk_management")

\* The trades of the account that opened in one of the hours, counted from the
\* stored open_time.
InHours(hours) ==
    SelectSeq(get_trades_dataframe(db).rows, LAMBDA r : (r.open_time \div 60) % 24 \in hours)

InMonthOf(m) == SelectSeq(get_trades_dataframe(db).rows, LAMBDA r : r.month = m)

OfSymbol(k) == SelectSeq(get_trades_dataframe(db).rows, LAMBDA r : r.symbol = Symbols[k])

OnBasicPath == pc \in {"basic_time", "basic_pair", "basic_200"}

\* The bucket an advanced insight was computed from.
AdvancedBucket(x) ==
    CASE x.type = "danger_hour" -> InHours({x.title[1]})
      [] x.type \in {"session_excellence", "session_warning"} -> InHours(SessionHours[x.title[1]])
      [] x.type = "seasonal_pattern" -> InMonthOf(x.title[1])
      [] x.type = "weekly_pattern" -> CalendarRows(4, 15, 23)

\* The bucket an insight of the basic path was computed from.
BasicBucket(x) ==
    CASE x.type = "time_pattern" /\ x.title[1] \in {"most_profitable_hour", "least_profitable_hour"}
           -> InHours({x.title[2]})
      [] x.type = "time_pattern" /\ x.title[1] = "most_profitable_day"
           -> CalendarRows(x.title[2], 0, 23)
      [] x.type = "time_pattern" /\ x.title[1] = "friday_warning" -> CalendarRows(4, 0, 23)
      [] x.type = "session_pattern" -> InHours(BasicSessionHours[x.title[1]])
      [] x.type = "pair_performance" -> OfSymbol(x.title[2])
      [] x.type = "risk_analysis" -> OfSymbol(x.title[1])

\* The gate of each rule.
AdvancedGate(x) == IF x.type = "weekly_pattern" THEN 3 ELSE 5

BasicGate(x) ==
    IF \/ x.type = "time_pattern" /\ x.title[1] \in {"most_profitable_day", "friday_warning"}
       \/ x.type = "pair_performance" /\ x.title[1] = "under"
    THEN 3 ELSE 5

GatedAdvancedTypes ==
    {"danger_hour", "session_excellence", "session_warning", "seasonal_pattern", "weekly_pattern"}

\* C15: the sample-size gates are exact.  No insight comes from a bucket below
\* its gate: 5 trades for the danger hour, a session, a month, the basic
\* most/least profitable hour, a basic session, the basic best pair and pair
\* risk; 3 trades for each hour of a golden window, the Friday-afternoon
\* group, the basic day of the week and the basic worst pair.  A bucket with
\* exactly the gate count is eligible: a session of 5 or more trades with a
\* total above 200 is reported, and the basic best hour, best day and best
\* pair are reported as soon as one bucket reaches the gate.
GatesExact ==
    /\ ~OnBasicPath =>
         /\ \A i \in DOMAIN insights :
              /\ insights[i].type \in GatedAdvancedTypes =>
                   Len(AdvancedBucket(insights[i])) >= AdvancedGate(insights[i])
              /\ insights[i].type = "golden_hours" =>
                   \A h \in insights[i].title[1] .. (insights[i].title[2] - 1) :
                      Len(InHours({h})) >= 3
         /\ (pc = "detect" /\ Len(ran) >= 2) =>
              \A k \in DOMAIN SessionHours :
                 (Len(InHours(SessionHours[k])) >= 5 /\ TotalProfit(InHours(SessionHours[k])) > 200)
                 => \E i \in DOMAIN insights :
                      insights[i].type = "session_excellence" /\ insights[i].title = <<k>>
    /\ OnBasicPath =>
         /\ \A i \in DOMAIN insights :
              Len(BasicBucket(insights[i])) >= BasicGate(insights[i])
         /\ (\E h \in 0..23 : Len(InHours({h})) >= 5) =>
              \E i \in DOMAIN insights : /\ insights[i].type = "time_pattern"
                                         /\ insights[i].title[1] = "most_profitable_hour"
         /\ (\E d \in 0..6 : Len(CalendarRows(d, 0, 23)) >= 3) =>
              \E i \in DOMAIN insights : /\ insights[i].type = "time_pattern"
                                         /\ insights[i].title[1] = "most_profitable_day"
         /\ (pc # "basic_time" /\ \E k \in DOMAIN Symbols : Len(OfSymbol(k)) >= 5) =>
              \E i \in DOMAIN insights : /\ insights[i].type = "pair_performance"
                                         /\ insights[i].title[1] = "top"

\* A session with exactly 5 trades was reported while another session of the
\* same account, with exactly 4 trades, was not.
GateReachedExactly ==
    /\ pc = "returned"
    /\ \E i \in DOMAIN insights :
         /\ insights[i].type \in {"session_excellence", "session_warning"}
         /\ Len(InHours(SessionHours[insights[i].title[1]])) = 5
    /\ \E k \in DOMAIN SessionHours :
         /\ Len(InHours(SessionHours[k])) = 4
         /\ \A i \in DOMAIN insights :
              insights[i].type \in {"session_excellence", "session_warning"}
              => insights[i].title # <<k>>

\* The net profits of the account's trades in the order they were opened.
ChronologicalProfits == NetProfits(SortByOpenTime(get_trades_dataframe(db).rows))

\* The maximal runs <<from, to>> of consecutive trades that are losses
\* (sign = -1: net_profit < 0) or wins (sign = 1: net_profit > 0).
InRun(p, sign) == IF sign < 0 THEN p < 0 ELSE p > 0

MaximalRuns(sign) ==
    LET ps == ChronologicalProfits IN
    {run \in (DOMAIN ps) \X (DOMAIN ps) :
        /\ run[1] <= run[2]
        /\ \A k \in run[1]..run[2] : InRun(ps[k], sign)
        /\ run[1] = 1 \/ ~InRun(ps[run[1] - 1], sign)
        /\ run[2] = Len(ps) \/ ~InRun(ps[run[2] + 1], sign)}

LongestRun(sign) == SetMax({run[2] - run[1] + 1 : run \in MaximalRuns(sign)} \cup {0})

\* The sum of the lengths of the maximal runs.
RunTotal(sign) == Len(SelectSeq(ChronologicalProfits, LAMBDA p : InRun(p, sign)))

\* The detector of position k in the list has been called on the advanced path.
Called(k) == ~OnBasicPath /\ pc \in {"detect", "returned", "http_200"} /\ Len(ran) >= k

Emitted(type) == {i \in DOMAIN insights : insights[i].type = type}

\* C16: the consecutive-losses detector emits its risk_warning exactly when
\* the longest run of consecutive losing trades, in the order the trades were
\* opened, has 5 trades or more, wherever the run lies (at the end of the
\* history and over the whole history included), and the insight's value is
\* the length of that run.
LossRunReported ==
    Called(10) =>
      /\ (Emitted("risk_warning") # {}) <=> (LongestRun(0 - 1) >= 5)
      /\ \A i \in Emitted("risk_warning") : insights[i].value = Num(LongestRun(0 - 1))

\* C17: the average losing streak reported with the risk_warning is the mean
\* of the lengths of all maximal runs of losing trades, a run that ends at
\* the last trade included (reported sum / count = total / number of runs).
AverageOverAllLossRuns ==
    Called(10) =>
      \A i \in Emitted("risk_warning") :
         insights[i].title[2] * Cardinality(MaximalRuns(0 - 1))
           = insights[i].title[3] * RunTotal(0 - 1)

\* C18: the winning-streaks detector emits its performance_strength exactly
\* when the longest run of consecutive winning trades, in the order the
\* trades were opened, has 8 trades or more (7 emit nothing); the value is
\* the length of that run and the reported average is the mean of the
\* lengths of all maximal runs, a run that ends at the last trade included.
WinRunReported ==
    Called(22) =>
      /\ (Emitted("performance_strength") # {}) <=> (LongestRun(1) >= 8)
      /\ \A i \in Emitted("performance_strength") :
           /\ insights[i].value = Num(LongestRun(1))
           /\ insights[i].title[1] = LongestRun(1)
           /\ insights[i].title[2] * Cardinality(MaximalRuns(1))
                = insights[i].title[3] * RunTotal(1)

\* A run of 8 wins that ends at the last trade, after a shorter winning run,
\* was reported; and an account whose longest run is 7 was analysed.
TrailingWinRunReported ==
    /\ pc = "returned"
    /\ Emitted("performance_strength") # {}
    /\ LongestRun(1) = 8
    /\ Cardinality(MaximalRuns(1)) >= 2
    /\ \E run \in MaximalRuns(1) : run[2] = Len(ChronologicalProfits) /\ run[2] - run[1] = 7

\* Trade count and total net profit of every hour, from the stored trades.
HourStats ==
    LET rows == get_trades_dataframe(db).rows
        at(h) == SelectSeq(rows, LAMBDA r : (r.open_time \div 60) % 24 = h)
    IN [h \in 0..23 |-> [count |-> Len(at(h)), total |-> TotalProfit(at(h))]]

\* The hours with at least 3 trades.
CountedHours(st) == {h \in 0..23 : st[h].count >= 3}

\* h ranks before g by total net profit (equal totals: the earlier hour).
RanksBefore(st, h, g) ==
    st[h].total > st[g].total \/ (st[h].total = st[g].total /\ h < g)

\* The 3 counted hours with the highest total net profit.
TopThreeHours(st) ==
    {h \in CountedHours(st) :
        Cardinality({g \in CountedHours(st) : RanksBefore(st, g, h)}) < 3}

\* The windows <<from, to>> of two or more consecutive hours among them.
GoldenWindows(top) ==
    {w \in top \X top :
        /\ w[1] < w[2]
        /\ \A h \in w[1]..w[2] : h \in top
        /\ (w[1] - 1) \notin top
        /\ (w[2] + 1) \notin top}

GoldenInsight(st, w) ==
    Insight("golden_hours", <<w[1], w[2] + 1>>,
            Num(SetSum(w[1]..w[2], [h \in 0..23 |-> st[h].total])),
            Min2(54, 3 * SetSum(w[1]..w[2], [h \in 0..23 |-> st[h].count])))

\* C19: the golden-hours rule keeps the hours with at least 3 trades, takes
\* the 3 with the highest total net profit and merges those that are
\* consecutive; it emits one golden_hours insight for each merged window of 2
\* or more hours and nothing else, titled from the first hour to the last
\* hour + 1, valued at the sum of the window's hourly totals, with confidence
\* min(0.9, trades of the window / 20).  A single counted hour (3 profitable
\* trades at 09:00) gives no window.
GoldenHoursRule ==
    Called(1) =>
      LET st == HourStats
          windows == GoldenWindows(TopThreeHours(st))
      IN /\ {insights[i] : i \in Emitted("golden_hours")}
              = {GoldenInsight(st, w) : w \in windows}
         /\ Cardinality(Emitted("golden_hours")) = Cardinality(windows)
         /\ Cardinality(CountedHours(st)) = 1 => Emitted("golden_hours") = {}

\* A window of two hours was reported while the third of the top three hours
\* stood alone, a fourth counted hour was left out, and an hour with fewer
\* than 3 trades was discarded.
GoldenWindowReported ==
    /\ pc = "returned"
    /\ Emitted("golden_hours") # {}
    /\ LET st == HourStats
           top == TopThreeHours(st)
       IN /\ \E h \in top : \A w \in GoldenWindows(top) : h \notin w[1]..w[2]
          /\ CountedHours(st) # top
          /\ \E h \in 0..23 : st[h].count \in 1..2

\* The hours with at least 5 trades.
BusyHours(st) == {h \in 0..23 : st[h].count >= 5}

\* The busy hour with the lowest total net profit (equal totals: the earliest).
WorstBusyHour(st) ==
    CHOOSE h \in BusyHours(st) :
       \A g \in BusyHours(st) : st[h].total < st[g].total \/ (st[h].total = st[g].total /\ h <= g)

\* C20: the danger-zone rule can flag only the hour with the lowest total net
\* profit among the hours with at least 5 trades; a danger_hour insight is
\* emitted exactly when that total is below -100 (a total of exactly -100
\* emits nothing), its value is that total and its confidence 0.85, and at
\* most one danger_hour insight is emitted per call.
DangerZoneRule ==
    Called(1) =>
      LET st == HourStats IN
      /\ Cardinality(Emitted("danger_hour")) <= 1
      /\ (Emitted("danger_hour") # {})
           <=> (BusyHours(st) # {} /\ st[WorstBusyHour(st)].total < 0 - 100)
      /\ \A i \in Emitted("danger_hour") :
           insights[i] = Insight("danger_hour", <<WorstBusyHour(st)>>,
                                 Num(st[WorstBusyHour(st)].total), 51)

\* The worst of several busy hours was flagged, and it alone.
DangerHourFlagged ==
    /\ pc = "returned"
    /\ Cardinality(Emitted("danger_hour")) = 1
    /\ Cardinality(BusyHours(HourStats)) >= 2

\* What the trading-sessions rule gives for session k: the insight type, or
\* "none", from the stored trades of the session's hours.
SessionVerdict(k) ==
    LET rows == InHours(SessionHours[k])
        n == Len(rows)
        profit == TotalProfit(rows)
        wins == Len(SelectSeq(rows, LAMBDA r : r.net_profit > 0))
    IN IF n < 5 THEN "none"
       ELSE IF profit > 200 \/ 100 * wins > 65 * n THEN "session_excellence"
            ELSE IF profit < 0 - 200 \/ 100 * wins < 35 * n THEN "session_warning"
                 ELSE "none"

\* The insights the run holds about session k.
AboutSession(k) ==
    {i \in DOMAIN insights : /\ insights[i].type \in {"session_excellence", "session_warning"}
                             /\ insights[i].title = <<k>>}

\* C21: for each of the six sessions the trading-sessions detector emits
\* nothing for fewer than 5 trades; otherwise session_excellence if the total
\* profit is above 200 or the win rate above 0.65, else session_warning if the
\* total is below -200 or the win rate below 0.35, else nothing.  No session
\* gets both, and a session that meets both tests gets session_excellence only.
SessionsRule ==
    Called(2) =>
      \A k \in DOMAIN SessionHours :
         /\ Cardinality(AboutSession(k)) = IF SessionVerdict(k) = "none" THEN 0 ELSE 1
         /\ \A i \in AboutSession(k) :
              /\ insights[i].type = SessionVerdict(k)
              /\ insights[i].value = Num(TotalProfit(InHours(SessionHours[k])))

\* A session with a total above 200 and a win rate below 0.35 was reported as
\* session_excellence.
SessionMeetsBothTests ==
    /\ pc = "returned"
    /\ \E k \in DOMAIN SessionHours :
         LET rows == InHours(SessionHours[k]) IN
         /\ Len(rows) >= 5
         /\ TotalProfit(rows) > 200
         /\ 100 * Len(SelectSeq(rows, LAMBDA r : r.net_profit > 0)) < 35 * Len(rows)
         /\ \E i \in AboutSession(k) : insights[i].type = "session_excellence"

\* The stored trades in the order they were opened.
Chronological == SortByOpenTime(get_trades_dataframe(db).rows)

\* The positions of the revenge occurrences: a trade opened right after a
\* trade that lost more than 200, with more than 1.5 times that trade's volume.
RevengeOccurrences ==
    LET ts == Chronological IN
    {i \in DOMAIN ts : /\ i > 1
                       /\ ts[i - 1].net_profit < 0 - 200
                       /\ 2 * ts[i].volume > 3 * ts[i - 1].volume}

\* C22: the revenge-trading detector emits its behavioral_warning exactly
\* when at least 3 trades were opened right after a loss of more than 200 with
\* more than 1.5 times the volume of that losing trade, and the insight's
\* value is the mean net profit of those trades.
RevengeRule ==
    Called(15) =>
      LET ts == Chronological
          occ == RevengeOccurrences
          outcomes == NetProfits(SelectSeq([i \in DOMAIN ts |->
                                               [hit |-> i \in occ,
                                                net_profit |-> ts[i].net_profit]],
                                           LAMBDA r : r.hit))
      IN /\ (Emitted("behavioral_warning") # {}) <=> (Cardinality(occ) >= 3)
         /\ \A i \in Emitted("behavioral_warning") : insights[i].value = Mean(outcomes)

\* The positions, in chronological order, of the losing trades whose next
\* trade was opened less than 15 minutes later.
QuickFollowedLosses ==
    LET ts == Chronological IN
    {i \in DOMAIN ts : /\ ts[i].net_profit < 0
                       /\ i < Len(ts)
                       /\ ts[i + 1].open_time - ts[i].open_time < 15}

\* C23: the emotional-trading detector counts the losing trades whose
\* chronologically next trade opened less than 15 minutes later, emits its
\* emotional_trading insight exactly when the count is at least 3, with the
\* count as value, and reports as success rate the share of those next trades
\* that won, whatever the order of the rows of the table.
EmotionalRule ==
    Called(18) =>
      LET ts == Chronological
          quick == QuickFollowedLosses
          won == {i \in quick : ts[i + 1].net_profit > 0}
      IN /\ (Emitted("emotional_trading") # {}) <=> (Cardinality(quick) >= 3)
         /\ \A i \in Emitted("emotional_trading") :
              /\ insights[i].value = Num(Cardinality(quick))
              /\ IF insights[i].title[2] = 0 THEN Cardinality(won) = 0
                 ELSE insights[i].title[1] * Cardinality(quick)
                        = Cardinality(won) * insights[i].title[2]

\* C24: a trade is in the weekend-exposure group exactly when it was opened on
\* Friday at hour 20 or later or on Sunday before hour 4; a trade opened on
\* Sunday between 04:00 and 04:59 is in the regular group, and every trade is
\* in exactly one of the two groups.
WeekendGroupMembership ==
    Called(13) =>
      \A i \in DOMAIN df.rows :
         LET r == df.rows[i]
             day == (r.open_time \div 1440) % 7
             hour == (r.open_time \div 60) % 24
             inWeekend == r \in Range(SelectSeq(df.rows, WeekendExposed))
             inRegular == r \in Range(SelectSeq(df.rows, LAMBDA x : ~WeekendExposed(x)))
         IN /\ inWeekend <=> ((day = 4 /\ hour >= 20) \/ (day = 6 /\ hour < 4))
            /\ inWeekend <=> ~inRegular

\* Total net profit of every symbol the account trades.
SymbolTotals ==
    LET rows == get_trades_dataframe(db).rows
        traded == {k \in DOMAIN Symbols : \E i \in DOMAIN rows : rows[i].symbol = Symbols[k]}
    IN [k \in traded |-> TotalProfit(SelectSeq(rows, LAMBDA r : r.symbol = Symbols[k]))]

\* C25: with at least 3 symbols and a positive overall net profit the
\* diversification detector emits concentration_risk exactly when the largest
\* per-symbol total is more than 80% of the total positive profit (the sum of
\* the per-symbol totals above 0), the insight's value is that share and so
\* lies in (0.8, 1]; with fewer than 3 symbols or an overall total that is not
\* positive nothing is emitted.
ConcentrationRule ==
    Called(19) =>
      LET totals == SymbolTotals
          overall == SetSum(DOMAIN totals, totals)
          gains == {k \in DOMAIN totals : totals[k] > 0}
          positive == SetSum(gains, totals)
          largest == SetMax({totals[k] : k \in DOMAIN totals})
      IN /\ (Emitted("concentration_risk") # {})
              <=> (/\ Cardinality(DOMAIN totals) >= 3
                   /\ overall > 0
                   /\ 5 * largest > 4 * positive)
         /\ \A i \in Emitted("concentration_risk") :
              /\ insights[i].value = Frac(largest, positive)
              /\ 5 * insights[i].value.n > 4 * insights[i].value.d
              /\ insights[i].value.n <= insights[i].value.d

\* The magnitude of the worst single loss of a group of rows: 0 for a group
\* without a losing trade.
WorstLoss(rows) ==
    LET losses == {0 - p : p \in {q \in Range(NetProfits(rows)) : q < 0}}
    IN IF losses = {} THEN 0 ELSE SetMax(losses)

\* C26: when some trades have a stop-loss and some have none, the stop-loss
\* detector emits risk_management exactly when the worst single loss without
\* a stop-loss is more than 2 times the worst single loss with one; a group
\* whose trades all won has no loss, and its smallest win is not a loss.
StopLossRule ==
    Called(8) =>
      LET rows == get_trades_dataframe(db).rows
          with == SelectSeq(rows, LAMBDA r : r.stop_loss # Null)
          without == SelectSeq(rows, LAMBDA r : r.stop_loss = Null)
      IN (Emitted("risk_management") # {})
           <=> (/\ with # <<>>
                /\ without # <<>>
                /\ WorstLoss(without) > 2 * WorstLoss(with))

\* The distinct volumes of the account's trades.
DistinctVolumes == {get_trades_dataframe(db).rows[i].volume : i \in DOMAIN get_trades_dataframe(db).rows}

\* C27: the lot-size detector emits nothing for fewer than 2 distinct volumes
\* (a single-trade table included); otherwise it puts every trade into exactly
\* one volume bucket and emits exactly one position_sizing insight, naming a
\* bucket that holds trades, and it never raises, also when the quartile
\* edges are fewer than the 4 labels.
LotSizeRule ==
    /\ ~(pc \in {"raised", "http_500"} /\ Len(ran) = 5)
    /\ (~OnBasicPath /\ TableBuilt) =>
         LET call == analyze_lot_size_optimization(get_trades_dataframe(db)) IN
         /\ ~call.raised
         /\ Cardinality(DistinctVolumes) < 2 => call.out = <<>>
         /\ Cardinality(DistinctVolumes) >= 2 =>
              /\ Len(call.out) = 1
              /\ call.out[1].type = "position_sizing"
              /\ "lot_category" \in DOMAIN call.df.extra
              /\ Len(call.df.extra["lot_category"]) = Len(call.df.rows)
              /\ \E i \in DOMAIN call.df.rows :
                    call.df.extra["lot_category"][i] = call.out[1].title[1]
    /\ Called(6) =>
         Cardinality(Emitted("position_sizing")) = IF Cardinality(DistinctVolumes) >= 2 THEN 1 ELSE 0

\* C28: within one call the hour flagged as danger_hour is never one of the
\* hours of a golden_hours window emitted by the same call.
DangerOutsideGolden ==
    Called(1) =>
      \A d \in Emitted("danger_hour") : \A g \in Emitted("golden_hours") :
         insights[d].title[1] \notin insights[g].title[1] .. (insights[g].title[2] - 1)

\* C29: _find_consecutive_periods returns pairwise disjoint groups of strictly
\* consecutive ascending hours, each of 2 hours or more and each made of
\* input hours only; for an input of at most 3 hours there is at most one
\* group, so at most one golden_hours insight is emitted per call; hours 23
\* and 0 are never in one group.
AtMostOneGoldenWindow ==
    pc = "periods" =>
      /\ Len(result) <= 1
      /\ Len(insights) <= 1
      /\ \A g \in DOMAIN result :
           /\ Len(result[g]) >= 2
           /\ \A j \in 2..Len(result[g]) : result[g][j] = result[g][j - 1] + 1
           /\ Range(result[g]) \subseteq Range(first)
           /\ ~({0, 23} \subseteq Range(result[g]))
      /\ \A g, h \in DOMAIN result : g # h => Range(result[g]) \cap Range(result[h]) = {}

\* Hours 23, 0 and 1 were handed over: 0 and 1 form the only group.
MidnightNotMerged ==
    /\ pc = "periods"
    /\ Range(first) = {23, 0, 1}
    /\ result = << <<0, 1>> >>
    /\ Len(insights) = 1

\* C30: a break-even trade (net_profit = 0) is neither a win nor a loss for
\* the streak detectors: it ends a running loss streak and a running win
\* streak and is counted in neither, so the lengths of the win runs and of
\* the loss runs the two detectors collect (final runs included) and the
\* number of break-even trades add up to the number of trades.
StreaksPartitionTrades ==
    Called(22) =>
      LET ps == ChronologicalProfits
          win_runs == WinLoop(ps, 1, <<>>, 0)
          loss_runs == LossLoop(ps, 1, <<>>, 0, 0).consecutive_losses
          even == SelectSeq(ps, LAMBDA p : p = 0)
      IN /\ SeqSum(win_runs) = Len(SelectSeq(ps, LAMBDA p : p > 0))
         /\ SeqSum(win_runs) + SeqSum(loss_runs) + Len(even) = Len(ps)

====
